---- MODULE Spec2Model ----
(***************************************************************************)
(* Model of the query operations of feishu_spreadsheet_mcp                 *)
(* (tools/spreadsheet_tools.py): list_spreadsheets, get_worksheets,        *)
(* read_range, read_multiple_ranges and find_cells, driven by a caller     *)
(* that picks the arguments and by an api_client that picks the replies.   *)
(*                                                                         *)
(* A handler suspends only at `await api_client.<method>(...)`, so every   *)
(* operation is modelled by a "call" action (argument validation up to the *)
(* first request) and a "reply" action (everything the handler does when   *)
(* the awaited call returns or raises, up to its next request or its end). *)
(*                                                                         *)
(* Python values are tagged records; a str is the tuple of its characters, *)
(* so that strip(), split() and pattern matching are computed.  The        *)
(* localized (Chinese) messages of the source are written as ASCII         *)
(* glosses.                                                                *)
(***************************************************************************)
EXTENDS Integers, Sequences, FiniteSets, TLC

VARIABLES pc, op, args, locals, calls, replies, outcome

\* the state of one invocation of a query operation
queryVars == <<pc, op, args, locals, calls, replies, outcome>>

\* the clock, the RateLimiter of one client, the callers of its admission
\* and the admissions it granted
VARIABLES now, limiter, waiters, admissions

limiterVars == <<now, limiter, waiters, admissions>>

\* the credential cache of one AuthenticationManager, the callers of its
\* token getter and the fetches it sent to the provider
VARIABLES credential, getters, flights

credentialVars == <<credential, getters, flights>>

\* one execute() of the request executor
VARIABLES exec

executorVars == <<exec>>

\* the session of one FeishuAPIClient
VARIABLES client

sessionVars == <<client>>

\* concurrent invocations of list_spreadsheets on one client
VARIABLES tasks

taskVars == <<tasks>>

vars == <<queryVars, limiterVars, credentialVars, executorVars, sessionVars, taskVars>>

----------------------------------------------------------------------------
(* Bounds of the model *)

\* most pages one listing is answered with
MaxPages == 2
\* most entries the pages of one listing hold in all
MaxFiles == 2
\* most entries in a worksheet or a valueRanges reply
MaxEntries == 2
\* longest range list enumerated member by member
MaxRanges == 2
\* last tick of the clock at which an admission may be asked for
MaxTime == 3
\* number of outbound requests that ask one client's limiter for admission
MaxCallers == 3
\* most operations on the session of one client
MaxOps == 5

----------------------------------------------------------------------------
(* Python values *)

None == [ty |-> "NoneType"]
PyStr(s) == [ty |-> "str", s |-> s]
PyInt(n) == [ty |-> "int", n |-> n]
PyBool(b) == [ty |-> "bool", b |-> b]
PyFloat(n) == [ty |-> "float", n |-> n]
PyList(xs) == [ty |-> "list", xs |-> xs]

\* isinstance(v, str)
IsStr(v) == v.ty = "str"
\* isinstance(v, int): bool is a subclass of int
IsInt(v) == v.ty \in {"int", "bool"}
\* isinstance(v, bool)
IsBool(v) == v.ty = "bool"
\* isinstance(v, list)
IsList(v) == v.ty = "list"

\* the numeric value of an int or a bool
NumOf(v) == IF v.ty = "bool" THEN (IF v.b THEN 1 ELSE 0) ELSE v.n

\* bool(v): the truth value `not v` / `if v` test
Truthy(v) ==
    CASE v.ty = "NoneType" -> FALSE
      [] v.ty = "str" -> Len(v.s) > 0
      [] v.ty = "list" -> Len(v.xs) > 0
      [] v.ty = "bool" -> v.b
      [] OTHER -> v.n # 0

\* dict.get(k, default)
Get(d, k, default) == IF k \in DOMAIN d THEN d[k] ELSE default

\* str.strip() on a tuple of characters
RECURSIVE LStrip(_)
LStrip(s) == IF s # <<>> /\ Head(s) = " " THEN LStrip(Tail(s)) ELSE s

RECURSIVE RStrip(_)
RStrip(s) ==
    IF s # <<>> /\ s[Len(s)] = " " THEN RStrip(SubSeq(s, 1, Len(s) - 1)) ELSE s

Strip(s) == RStrip(LStrip(s))

----------------------------------------------------------------------------
(* Exceptions *)

ValueError(msg) == [cls |-> "ValueError", message |-> msg]

OtherError(cls, msg) == [cls |-> cls, message |-> msg]

FeishuAPIError(code, message, http_status) ==
    [cls |-> "FeishuAPIError", code |-> code, message |-> message,
     http_status |-> http_status]

\* codes for which FeishuAPIError.is_authentication_error() holds
AuthCodes == {99991663, 99991664}

is_authentication_error(e) == e.code \in AuthCodes

Raise(e) == [kind |-> "raise", exc |-> e]
Return(v) == [kind |-> "return", value |-> v]
NoOutcome == [kind |-> "none"]

\* what the api_client can raise: typed provider errors and anything else
ProviderErrors ==
    { FeishuAPIError(c, <<"provider message">>, 403) :
        c \in {1061004, 1310213, 1310214, 1310215, 1310216, 1310218, 1310219,
               1310299} }
    \cup { FeishuAPIError(c, <<"provider message">>, 200) : c \in {99991663, 1310299} }

UnexpectedErrors ==
    { OtherError("RuntimeError", <<"Unexpected error">>),
      ValueError(<<"Unexpected error">>) }

ApiErrors == ProviderErrors \cup UnexpectedErrors

----------------------------------------------------------------------------
(* list_spreadsheets *)

\* SpreadsheetInfo.from_api_response: a record built from a complete entry,
\* ValueError for an entry that misses a required field
SpreadsheetInfo_from_api_response(file_data) ==
    IF {"token", "type", "url"} \subseteq DOMAIN file_data
    THEN [ok |-> TRUE,
          value |-> [token |-> file_data.token, url |-> file_data.url]]
    ELSE [ok |-> FALSE, exc |-> ValueError(<<"missing required field">>)]

\* the for-loop over one page: keep type == "sheet", skip on ValueError
RECURSIVE FilterFiles_abort(_)
FilterFiles_abort(files) ==
    IF files = <<>> THEN <<>>
    ELSE LET file_data == Head(files)
             rest == FilterFiles_abort(Tail(files))
         IN IF Get(file_data, "type", None) = PyStr(<<"s", "h", "e", "e", "t">>)
            THEN LET r == SpreadsheetInfo_from_api_response(file_data)
                 IN IF r.ok THEN <<r.value>> \o rest ELSE <<>>
            ELSE rest

RECURSIVE FilterFiles(_)
FilterFiles(files) ==
    IF files = <<>> THEN <<>>
    ELSE LET file_data == Head(files)
             rest == FilterFiles(Tail(files))
         IN IF Get(file_data, "type", None) = PyStr(<<"s", "h", "e", "e", "t">>)
            THEN LET r == SpreadsheetInfo_from_api_response(file_data)
                 IN IF r.ok THEN <<r.value>> \o rest ELSE rest
            ELSE rest

\* what one page adds to the accumulated spreadsheets list
AppendPage_prepend(spreadsheets, files) == FilterFiles(files) \o spreadsheets

AppendPage(spreadsheets, files) == spreadsheets \o FilterFiles(files)

\* the keyword arguments of one list_files request
ListFilesRequest_stale(folder_token, page_size, page_token) ==
    [method |-> "list_files",
     kwargs |-> [folder_token |-> folder_token, page_size |-> page_size]]

ListFilesRequest(folder_token, page_size, page_token) ==
    IF Truthy(page_token)
    THEN [method |-> "list_files",
          kwargs |-> [folder_token |-> folder_token, page_size |-> page_size,
                      page_token |-> page_token]]
    ELSE [method |-> "list_files",
          kwargs |-> [folder_token |-> folder_token, page_size |-> page_size]]

\* the except clauses of list_spreadsheets
ListErrorMapping_noauth(e) ==
    IF e.cls = "FeishuAPIError"
    THEN IF e.code = 1061004
         THEN FeishuAPIError(e.code, <<"no access permission">>, e.http_status)
         ELSE e
    ELSE FeishuAPIError(-1, <<"error while listing spreadsheets: ">> \o e.message,
                        500)

ListErrorMapping(e) ==
    IF e.cls = "FeishuAPIError"
    THEN IF e.code = 1061004
         THEN FeishuAPIError(e.code, <<"no access permission">>, e.http_status)
         ELSE IF is_authentication_error(e)
         THEN FeishuAPIError(e.code, <<"authentication failed">>, e.http_status)
         ELSE e
    ELSE FeishuAPIError(-1, <<"error while listing spreadsheets: ">> \o e.message,
                        500)

\* the API maximum of page_size
MaxPageSize == 200

\* page_size validation and capping
ListPageSizeError(page_size) == ~IsInt(page_size) \/ NumOf(page_size) <= 0

CappedPageSize_uncapped(page_size) == page_size

CappedPageSize(page_size) ==
    IF NumOf(page_size) > MaxPageSize THEN PyInt(MaxPageSize) ELSE page_size

\* folder_token validation
ListFolderError(folder_token) ==
    /\ folder_token # None
    /\ (~IsStr(folder_token) \/ ~Truthy(PyStr(Strip(folder_token.s))))

StrippedFolder(folder_token) ==
    IF folder_token # None THEN PyStr(Strip(folder_token.s)) ELSE folder_token

\* caller inputs
PageSizeInputs ==
    {PyInt(-1), PyInt(0), PyInt(1), PyInt(200), PyInt(201), PyFloat(10),
     PyStr(<<"5">>), None}

FolderInputs ==
    {None, PyStr(<<" ", "f", " ">>), PyStr(<<>>), PyStr(<<" ">>), PyInt(7)}

list_spreadsheets_call(folder_token, page_size) ==
    /\ pc = "idle"
    /\ op' = "list_spreadsheets"
    /\ args' = [folder_token |-> folder_token, page_size |-> page_size]
    /\ replies' = <<>>
    /\ IF ListPageSizeError(page_size)
       THEN /\ outcome' = Raise(ValueError(<<"page_size must be a positive integer">>))
            /\ pc' = "done"
            /\ calls' = <<>>
            /\ locals' = <<>>
       ELSE IF ListFolderError(folder_token)
       THEN /\ outcome' = Raise(ValueError(
                   <<"folder_token must be a non-empty string if provided">>))
            /\ pc' = "done"
            /\ calls' = <<>>
            /\ locals' = <<>>
       ELSE /\ outcome' = NoOutcome
            /\ pc' = "awaiting"
            /\ locals' = [page_size |-> CappedPageSize(page_size),
                          folder_token |-> StrippedFolder(folder_token),
                          spreadsheets |-> <<>>,
                          page_token |-> None]
            /\ calls' = <<ListFilesRequest(StrippedFolder(folder_token),
                                           CappedPageSize(page_size), None)>>

\* entries a page can hold: two well-formed sheets, a document of another
\* kind, a sheet missing a required field, an entry without a type
FileEntries ==
    { [token |-> "sheet1", type |-> PyStr(<<"s", "h", "e", "e", "t">>), url |-> "u1"],
      [token |-> "sheet2", type |-> PyStr(<<"s", "h", "e", "e", "t">>), url |-> "u2"],
      [token |-> "doc3", type |-> PyStr(<<"d", "o", "c">>), url |-> "u3"],
      [token |-> "sheet4", type |-> PyStr(<<"s", "h", "e", "e", "t">>)] }

RECURSIVE SeqsUpTo(_, _)
SeqsUpTo(S, n) ==
    IF n = 0 THEN {<<>>}
    ELSE LET shorter == SeqsUpTo(S, n - 1)
         IN shorter \cup {Append(s, x) : s \in {t \in shorter : Len(t) = n - 1}, x \in S}

\* cursors: two that continue the listing, and the ways to end it
ContinueTokens == {PyStr(<<"t", "A">>), PyStr(<<"t", "B">>)}
EndTokens == {None, PyStr(<<>>)}

\* successful list_files replies
ListReplies ==
    { [data |-> [files |-> f, page_token |-> t]] :
        f \in SeqsUpTo(FileEntries, MaxFiles), t \in ContinueTokens \cup EndTokens }
    \cup { [data |-> [files |-> f]] : f \in SeqsUpTo(FileEntries, MaxFiles) }
    \cup { [data |-> << >>], << >> }

\* number of entries in the pages received so far
RECURSIVE FilesReceived(_)
FilesReceived(rs) ==
    IF rs = <<>> THEN 0
    ELSE Len(Get(Get(Head(rs).response, "data", <<>>), "files", <<>>))
         + FilesReceived(Tail(rs))

\* whether a reply asks the handler for another page
ListContinues(response) ==
    Truthy(Get(Get(response, "data", <<>>), "page_token", None))

list_files_reply_capped(response) ==
    /\ pc = "awaiting"
    /\ op = "list_spreadsheets"
    /\ Len(calls) < MaxPages \/ ~ListContinues(response)
    /\ FilesReceived(replies) + Len(Get(Get(response, "data", <<>>), "files", <<>>))
         <= MaxFiles
    /\ replies' = Append(replies, [ok |-> TRUE, response |-> response])
    /\ LET files == Get(Get(response, "data", <<>>), "files", <<>>)
           spreadsheets == AppendPage(locals.spreadsheets, files)
           page_token == Get(Get(response, "data", <<>>), "page_token", None)
       IN /\ outcome' = Return(spreadsheets)
          /\ pc' = "done"
          /\ locals' = [locals EXCEPT !.spreadsheets = spreadsheets,
                                      !.page_token = page_token]
          /\ calls' = calls
    /\ UNCHANGED <<op, args>>

list_files_reply(response) ==
    /\ pc = "awaiting"
    /\ op = "list_spreadsheets"
    /\ Len(calls) < MaxPages \/ ~ListContinues(response)
    /\ FilesReceived(replies) + Len(Get(Get(response, "data", <<>>), "files", <<>>))
         <= MaxFiles
    /\ replies' = Append(replies, [ok |-> TRUE, response |-> response])
    /\ LET files == Get(Get(response, "data", <<>>), "files", <<>>)
           spreadsheets == AppendPage(locals.spreadsheets, files)
           page_token == Get(Get(response, "data", <<>>), "page_token", None)
       IN IF ~Truthy(page_token)
          THEN /\ outcome' = Return(spreadsheets)
               /\ pc' = "done"
               /\ locals' = [locals EXCEPT !.spreadsheets = spreadsheets,
                                           !.page_token = page_token]
               /\ calls' = calls
          ELSE /\ outcome' = NoOutcome
               /\ pc' = "awaiting"
               /\ locals' = [locals EXCEPT !.spreadsheets = spreadsheets,
                                           !.page_token = page_token]
               /\ calls' = Append(calls,
                     ListFilesRequest(locals.folder_token, locals.page_size,
                                      page_token))
    /\ UNCHANGED <<op, args>>

list_files_raise_partial(e) ==
    /\ pc = "awaiting"
    /\ op = "list_spreadsheets"
    /\ replies' = Append(replies, [ok |-> FALSE, exc |-> e])
    /\ outcome' = IF locals.spreadsheets = <<>> THEN Raise(ListErrorMapping(e))
                  ELSE Return(locals.spreadsheets)
    /\ pc' = "done"
    /\ UNCHANGED <<op, args, locals, calls>>

list_files_raise(e) ==
    /\ pc = "awaiting"
    /\ op = "list_spreadsheets"
    /\ replies' = Append(replies, [ok |-> FALSE, exc |-> e])
    /\ outcome' = Raise(ListErrorMapping(e))
    /\ pc' = "done"
    /\ UNCHANGED <<op, args, locals, calls>>


----------------------------------------------------------------------------
(* Checks shared by get_worksheets, read_range, read_multiple_ranges and    *)
(* find_cells                                                               *)

\* the two-step check of a required string argument: the message of the
\* ValueError it raises, or <<>> when the argument passes
RequiredStrError_nostrip(v, name) ==
    IF ~Truthy(v) \/ ~IsStr(v)
    THEN <<name \o " must be a non-empty string">>
    ELSE <<>>

RequiredStrError(v, name) ==
    IF ~Truthy(v) \/ ~IsStr(v)
    THEN <<name \o " must be a non-empty string">>
    ELSE IF ~Truthy(PyStr(Strip(v.s)))
    THEN <<name \o " cannot be empty or whitespace only">>
    ELSE <<>>

valid_value_options == {"ToString", "Formula", "FormattedValue", "UnformattedValue"}

valid_datetime_options == {"FormattedString"}

\* the render-option checks: the message of the ValueError, or <<>>
RenderOptionError(value_render_option, date_time_render_option) ==
    IF value_render_option \notin valid_value_options
    THEN <<"value_render_option must be one of valid_value_options">>
    ELSE IF date_time_render_option \notin valid_datetime_options
    THEN <<"date_time_render_option must be one of valid_datetime_options">>
    ELSE <<>>

Letters ==
    {"A", "B", "C", "D", "E", "F", "G", "H", "I", "J", "K", "L", "M", "N", "O",
     "P", "Q", "R", "S", "T", "U", "V", "W", "X", "Y", "Z"}

Digits == {"0", "1", "2", "3", "4", "5", "6", "7", "8", "9"}

\* position of the first occurrence of character c in s, 0 when there is none
Find(s, c) ==
    IF \E i \in 1..Len(s) : s[i] = c
    THEN CHOOSE i \in 1..Len(s) : s[i] = c /\ \A j \in 1..(i - 1) : s[j] # c
    ELSE 0

\* an A1-style cell: column letters followed by a row number
IsCell(s) ==
    \E k \in 1..(Len(s) - 1) :
        /\ \A i \in 1..k : s[i] \in Letters
        /\ \A i \in (k + 1)..Len(s) : s[i] \in Digits

\* <A1-style-cell>:<A1-style-cell>
IsCellRange(s) ==
    LET c == Find(s, ":")
    IN /\ c > 0
       /\ IsCell(SubSeq(s, 1, c - 1))
       /\ IsCell(SubSeq(s, c + 1, Len(s)))

\* validate_range_spec: the trimmed string when it reads
\* <non-empty-id>!<cell>:<cell>, ValueError otherwise
validate_range_spec_untrimmed(range_spec) ==
    IF ~Truthy(range_spec) \/ ~IsStr(range_spec)
    THEN [ok |-> FALSE,
          exc |-> ValueError(<<"range_spec must be a non-empty string">>)]
    ELSE LET s == range_spec.s
             bang == Find(s, "!")
         IN IF bang <= 1 \/ ~IsCellRange(SubSeq(s, bang + 1, Len(s)))
            THEN [ok |-> FALSE, exc |-> ValueError(<<"invalid cell range">>)]
            ELSE [ok |-> TRUE, value |-> PyStr(s)]

validate_range_spec(range_spec) ==
    IF ~Truthy(range_spec) \/ ~IsStr(range_spec)
    THEN [ok |-> FALSE,
          exc |-> ValueError(<<"range_spec must be a non-empty string">>)]
    ELSE LET s == Strip(range_spec.s)
             bang == Find(s, "!")
         IN IF s = <<>>
            THEN [ok |-> FALSE,
                  exc |-> ValueError(<<"range_spec cannot be empty">>)]
            ELSE IF bang = 0
            THEN [ok |-> FALSE,
                  exc |-> ValueError(<<"range_spec must include a sheet id">>)]
            ELSE IF bang = 1
            THEN [ok |-> FALSE,
                  exc |-> ValueError(<<"sheet id cannot be empty">>)]
            ELSE IF ~IsCellRange(SubSeq(s, bang + 1, Len(s)))
            THEN [ok |-> FALSE,
                  exc |-> ValueError(<<"invalid cell range">>)]
            ELSE [ok |-> TRUE, value |-> PyStr(s)]

\* a handler that fails validation: the error is raised, nothing was sent
RaiseBeforeCall(e) ==
    /\ outcome' = Raise(e)
    /\ pc' = "done"
    /\ calls' = <<>>
    /\ locals' = <<>>

\* a handler that passed validation and awaits its single request
SendRequest(request, loc) ==
    /\ outcome' = NoOutcome
    /\ pc' = "awaiting"
    /\ calls' = <<request>>
    /\ locals' = loc

\* caller inputs for a document or sheet identifier
TokenInputs ==
    {PyStr(<<"t", "k">>), PyStr(<<" ", "t", "k", " ">>), PyStr(<<>>),
     PyStr(<<" ">>), None, PyInt(5)}

----------------------------------------------------------------------------
(* get_worksheets *)

\* WorksheetInfo.from_api_response: ValueError when a required field misses
WorksheetInfo_from_api_response(worksheet_data) ==
    IF {"sheet_id", "title", "index"} \subseteq DOMAIN worksheet_data
    THEN [ok |-> TRUE,
          value |-> [sheet_id |-> worksheet_data.sheet_id,
                     title |-> worksheet_data.title,
                     index |-> worksheet_data.index]]
    ELSE [ok |-> FALSE, exc |-> ValueError(<<"missing required field">>)]

\* the for-loop over the sheets of the response
RECURSIVE MapWorksheets_abort(_)
MapWorksheets_abort(worksheets_data) ==
    IF worksheets_data = <<>> THEN <<>>
    ELSE LET r == WorksheetInfo_from_api_response(Head(worksheets_data))
             rest == MapWorksheets_abort(Tail(worksheets_data))
         IN IF r.ok THEN <<r.value>> \o rest ELSE <<>>

RECURSIVE MapWorksheets(_)
MapWorksheets(worksheets_data) ==
    IF worksheets_data = <<>> THEN <<>>
    ELSE LET r == WorksheetInfo_from_api_response(Head(worksheets_data))
             rest == MapWorksheets(Tail(worksheets_data))
         IN IF r.ok THEN <<r.value>> \o rest ELSE rest

\* the except clauses of get_worksheets
WorksheetsErrorMapping_reraise(e) ==
    IF e.cls = "FeishuAPIError" THEN e
    ELSE FeishuAPIError(-1, <<"error while getting worksheets: ">> \o e.message, 500)

WorksheetsErrorMapping(e) ==
    IF e.cls = "FeishuAPIError"
    THEN IF e.code = 1310214
         THEN FeishuAPIError(e.code, <<"spreadsheet does not exist">>, e.http_status)
         ELSE IF e.code = 1310213
         THEN FeishuAPIError(e.code, <<"no read permission">>, e.http_status)
         ELSE IF is_authentication_error(e)
         THEN FeishuAPIError(e.code, <<"authentication failed">>, e.http_status)
         ELSE e
    ELSE FeishuAPIError(-1, <<"error while getting worksheets: ">> \o e.message, 500)

get_worksheets_call(spreadsheet_token) ==
    /\ pc = "idle"
    /\ op' = "get_worksheets"
    /\ args' = [spreadsheet_token |-> spreadsheet_token]
    /\ replies' = <<>>
    /\ IF RequiredStrError(spreadsheet_token, "spreadsheet_token") # <<>>
       THEN RaiseBeforeCall(ValueError(
                RequiredStrError(spreadsheet_token, "spreadsheet_token")))
       ELSE SendRequest(
                [method |-> "get_worksheets",
                 kwargs |-> [spreadsheet_token |-> PyStr(Strip(spreadsheet_token.s))]],
                [spreadsheet_token |-> PyStr(Strip(spreadsheet_token.s))])

WorksheetEntries ==
    { [sheet_id |-> "ws1", title |-> "One", index |-> 0],
      [sheet_id |-> "ws2", title |-> "Two", index |-> 1],
      [sheet_id |-> "ws3", title |-> "Three"] }

WorksheetReplies ==
    { [data |-> [sheets |-> w]] : w \in SeqsUpTo(WorksheetEntries, MaxEntries) }
    \cup { [data |-> << >>], << >> }

get_worksheets_reply(response) ==
    /\ pc = "awaiting"
    /\ op = "get_worksheets"
    /\ replies' = Append(replies, [ok |-> TRUE, response |-> response])
    /\ outcome' = Return(MapWorksheets(
                      Get(Get(response, "data", <<>>), "sheets", <<>>)))
    /\ pc' = "done"
    /\ UNCHANGED <<op, args, locals, calls>>

get_worksheets_raise(e) ==
    /\ pc = "awaiting"
    /\ op = "get_worksheets"
    /\ replies' = Append(replies, [ok |-> FALSE, exc |-> e])
    /\ outcome' = Raise(WorksheetsErrorMapping(e))
    /\ pc' = "done"
    /\ UNCHANGED <<op, args, locals, calls>>


----------------------------------------------------------------------------
(* read_range *)

\* RangeData.from_api_response: ValueError when a required field misses
RangeData_from_api_response(range_data) ==
    IF {"range", "majorDimension", "values", "revision"} \subseteq DOMAIN range_data
    THEN [ok |-> TRUE,
          value |-> [range |-> range_data.range,
                     major_dimension |-> range_data.majorDimension,
                     values |-> range_data.values,
                     revision |-> range_data.revision]]
    ELSE [ok |-> FALSE, exc |-> ValueError(<<"missing required field">>)]

\* the except clauses of read_range
ReadRangeErrorMapping_generic(e) ==
    IF e.cls = "FeishuAPIError" THEN e
    ELSE FeishuAPIError(-1, <<"error while reading range">>, 500)

ReadRangeErrorMapping(e) ==
    IF e.cls = "FeishuAPIError"
    THEN IF e.code = 1310214
         THEN FeishuAPIError(e.code, <<"spreadsheet does not exist">>, e.http_status)
         ELSE IF e.code = 1310215
         THEN FeishuAPIError(e.code, <<"worksheet does not exist, check range_spec">>,
                             e.http_status)
         ELSE IF e.code = 1310213
         THEN FeishuAPIError(e.code, <<"no read permission">>, e.http_status)
         ELSE IF e.code = 1310216
         THEN FeishuAPIError(e.code, <<"invalid range format, use sheetId!A1:B10">>,
                             e.http_status)
         ELSE IF e.code = 1310218
         THEN FeishuAPIError(e.code, <<"data exceeds 10MB limit, narrow the range">>,
                             e.http_status)
         ELSE IF is_authentication_error(e)
         THEN FeishuAPIError(e.code, <<"authentication failed">>, e.http_status)
         ELSE e
    ELSE FeishuAPIError(-1, <<"error while reading range: ">> \o e.message, 500)

\* the range check of read_range: range_spec = validate_range_spec(range_spec)
ReadRangeSpecCheck_unchecked(range_spec) == [ok |-> TRUE, value |-> range_spec]

ReadRangeSpecCheck(range_spec) == validate_range_spec(range_spec)

\* the strings used as range arguments
RangeS1 == <<"S", "!", "A", "1", ":", "B", "2">>
RangeS1Padded == <<" ", "S", "!", "A", "1", ":", "B", "2", " ">>
RangeT1 == <<"T", "!", "C", "3", ":", "D", "4">>
RangeNoPrefix == <<"A", "1", ":", "B", "1", "0">>
RangeNoPrefixPadded == <<" ", "A", "1", ":", "B", "1", "0">>
RangeEmptyId == <<"!", "A", "1", ":", "B", "2">>
RangeOneCell == <<"S", "!", "A", "1">>
RangeWord == <<"i", "n", "v", "a", "l", "i", "d">>

RangeInputs ==
    {PyStr(RangeS1), PyStr(RangeS1Padded), PyStr(RangeT1), PyStr(RangeNoPrefix),
     PyStr(RangeNoPrefixPadded), PyStr(RangeEmptyId), PyStr(RangeOneCell),
     PyStr(RangeWord), PyStr(<<>>), PyStr(<<" ">>), None}

ValueOptionInputs == {"UnformattedValue", "Formula", "Invalid"}

DateTimeOptionInputs == {"FormattedString", "Invalid"}

read_range_call(spreadsheet_token, range_spec, value_render_option, date_time_render_option) ==
    /\ pc = "idle"
    /\ op' = "read_range"
    /\ args' = [spreadsheet_token |-> spreadsheet_token,
                range_spec |-> range_spec,
                value_render_option |-> value_render_option,
                date_time_render_option |-> date_time_render_option]
    /\ replies' = <<>>
    /\ IF RequiredStrError(spreadsheet_token, "spreadsheet_token") # <<>>
       THEN RaiseBeforeCall(ValueError(
                RequiredStrError(spreadsheet_token, "spreadsheet_token")))
       ELSE IF ~ReadRangeSpecCheck(range_spec).ok
       THEN RaiseBeforeCall(ReadRangeSpecCheck(range_spec).exc)
       ELSE IF RenderOptionError(value_render_option, date_time_render_option) # <<>>
       THEN RaiseBeforeCall(ValueError(
                RenderOptionError(value_render_option, date_time_render_option)))
       ELSE SendRequest(
                [method |-> "read_range",
                 kwargs |-> [spreadsheet_token |-> PyStr(Strip(spreadsheet_token.s)),
                             range_spec |-> ReadRangeSpecCheck(range_spec).value,
                             value_render_option |-> value_render_option,
                             date_time_render_option |-> date_time_render_option]],
                [spreadsheet_token |-> PyStr(Strip(spreadsheet_token.s)),
                 range_spec |-> ReadRangeSpecCheck(range_spec).value])

\* entries a valueRange / valueRanges reply can hold: two complete ones and
\* one that misses required fields
RangeEntries ==
    { [range |-> PyStr(RangeS1), majorDimension |-> "ROWS",
       values |-> <<<<"a", "b">>>>, revision |-> 1],
      [range |-> PyStr(RangeT1), majorDimension |-> "ROWS",
       values |-> <<<<"c">>>>, revision |-> 2],
      [range |-> PyStr(RangeT1)] }

ReadRangeReplies ==
    { [data |-> [valueRange |-> r]] : r \in RangeEntries }
    \cup { [data |-> << >>], << >> }

read_range_reply(response) ==
    /\ pc = "awaiting"
    /\ op = "read_range"
    /\ replies' = Append(replies, [ok |-> TRUE, response |-> response])
    /\ LET range_data == Get(Get(response, "data", <<>>), "valueRange", <<>>)
           r == RangeData_from_api_response(range_data)
       IN outcome' = IF r.ok THEN Return(r.value)
                     ELSE Raise(ReadRangeErrorMapping(r.exc))
    /\ pc' = "done"
    /\ UNCHANGED <<op, args, locals, calls>>

read_range_raise_retry(e) ==
    /\ pc = "awaiting"
    /\ op = "read_range"
    /\ replies' = Append(replies, [ok |-> FALSE, exc |-> e])
    /\ IF Len(calls) < 2
       THEN /\ calls' = Append(calls, calls[1])
            /\ UNCHANGED <<outcome, pc>>
       ELSE /\ outcome' = Raise(ReadRangeErrorMapping(e))
            /\ pc' = "done"
            /\ UNCHANGED calls
    /\ UNCHANGED <<op, args, locals>>

read_range_raise(e) ==
    /\ pc = "awaiting"
    /\ op = "read_range"
    /\ replies' = Append(replies, [ok |-> FALSE, exc |-> e])
    /\ outcome' = Raise(ReadRangeErrorMapping(e))
    /\ pc' = "done"
    /\ UNCHANGED <<op, args, locals, calls>>


----------------------------------------------------------------------------
(* read_multiple_ranges *)

\* the provider's batch limit checked by `len(ranges) > 100`
BatchLimit == 100

\* smallest (1-based) position whose member fails validate_range_spec,
\* 0 when every member passes: the enumerate loop stops at the first failure
FirstInvalidRange_last(xs) ==
    IF \E i \in 1..Len(xs) : ~validate_range_spec(xs[i]).ok
    THEN CHOOSE i \in 1..Len(xs) :
             /\ ~validate_range_spec(xs[i]).ok
             /\ \A j \in (i + 1)..Len(xs) : validate_range_spec(xs[j]).ok
    ELSE 0

FirstInvalidRange(xs) ==
    IF \E i \in 1..Len(xs) : ~validate_range_spec(xs[i]).ok
    THEN CHOOSE i \in 1..Len(xs) :
             /\ ~validate_range_spec(xs[i]).ok
             /\ \A j \in 1..(i - 1) : validate_range_spec(xs[j]).ok
    ELSE 0

\* validated_ranges once every member passed
ValidatedRanges(xs) == [i \in 1..Len(xs) |-> validate_range_spec(xs[i]).value]

\* the checks on the ranges argument: the ValueError raised, or <<>>
RangesError_offbyone(ranges) ==
    IF ~IsList(ranges)
    THEN ValueError(<<"ranges must be a list">>)
    ELSE IF Len(ranges.xs) = 0
    THEN ValueError(<<"ranges cannot be empty">>)
    ELSE IF Len(ranges.xs) >= BatchLimit
    THEN ValueError(<<"ranges cannot contain more than 100 items">>)
    ELSE IF FirstInvalidRange(ranges.xs) # 0
    THEN LET i == FirstInvalidRange(ranges.xs)
         IN ValueError(<<"Invalid range at index " \o ToString(i - 1) \o ": ">>
                       \o validate_range_spec(ranges.xs[i]).exc.message)
    ELSE <<>>

RangesError(ranges) ==
    IF ~IsList(ranges)
    THEN ValueError(<<"ranges must be a list">>)
    ELSE IF Len(ranges.xs) = 0
    THEN ValueError(<<"ranges cannot be empty">>)
    ELSE IF Len(ranges.xs) > BatchLimit
    THEN ValueError(<<"ranges cannot contain more than 100 items">>)
    ELSE IF FirstInvalidRange(ranges.xs) # 0
    THEN LET i == FirstInvalidRange(ranges.xs)
         IN ValueError(<<"Invalid range at index " \o ToString(i - 1) \o ": ">>
                       \o validate_range_spec(ranges.xs[i]).exc.message)
    ELSE <<>>

\* the placeholder appended for a malformed entry at 0-based index i
PlaceholderRange_first(i, validated_ranges) ==
    [range |-> IF 0 < Len(validated_ranges)
               THEN validated_ranges[1]
               ELSE PyStr(<<"unknown_range_", ToString(i)>>),
     major_dimension |-> "ROWS",
     values |-> <<>>,
     revision |-> 0]

PlaceholderRange(i, validated_ranges) ==
    [range |-> IF i < Len(validated_ranges)
               THEN validated_ranges[i + 1]
               ELSE PyStr(<<"unknown_range_", ToString(i)>>),
     major_dimension |-> "ROWS",
     values |-> <<>>,
     revision |-> 0]

\* the enumerate loop over valueRanges, from 0-based index i on
RECURSIVE MapRanges_drop(_, _, _)
MapRanges_drop(value_ranges, i, validated_ranges) ==
    IF i >= Len(value_ranges) THEN <<>>
    ELSE LET r == RangeData_from_api_response(value_ranges[i + 1])
             rest == MapRanges_drop(value_ranges, i + 1, validated_ranges)
         IN IF r.ok THEN <<r.value>> \o rest ELSE rest

RECURSIVE MapRanges(_, _, _)
MapRanges(value_ranges, i, validated_ranges) ==
    IF i >= Len(value_ranges) THEN <<>>
    ELSE LET r == RangeData_from_api_response(value_ranges[i + 1])
             rest == MapRanges(value_ranges, i + 1, validated_ranges)
         IN IF r.ok THEN <<r.value>> \o rest
            ELSE <<PlaceholderRange(i, validated_ranges)>> \o rest

\* the except clauses of read_multiple_ranges
ReadMultipleErrorMapping_status(e) ==
    IF e.cls = "FeishuAPIError"
    THEN IF e.code \in {1310214, 1310215, 1310213, 1310216, 1310218}
         THEN FeishuAPIError(e.code, <<"read failed">>, 500)
         ELSE IF is_authentication_error(e)
         THEN FeishuAPIError(e.code, <<"authentication failed">>, e.http_status)
         ELSE e
    ELSE FeishuAPIError(-1, <<"error while reading ranges: ">> \o e.message, 500)

ReadMultipleErrorMapping(e) ==
    IF e.cls = "FeishuAPIError"
    THEN IF e.code = 1310214
         THEN FeishuAPIError(e.code, <<"spreadsheet does not exist">>, e.http_status)
         ELSE IF e.code = 1310215
         THEN FeishuAPIError(e.code, <<"worksheet does not exist, check ranges">>,
                             e.http_status)
         ELSE IF e.code = 1310213
         THEN FeishuAPIError(e.code, <<"no read permission">>, e.http_status)
         ELSE IF e.code = 1310216
         THEN FeishuAPIError(e.code, <<"invalid range format, use sheetId!A1:B10">>,
                             e.http_status)
         ELSE IF e.code = 1310218
         THEN FeishuAPIError(e.code,
                             <<"data exceeds 10MB limit, reduce the ranges">>,
                             e.http_status)
         ELSE IF is_authentication_error(e)
         THEN FeishuAPIError(e.code, <<"authentication failed">>, e.http_status)
         ELSE e
    ELSE FeishuAPIError(-1, <<"error while reading ranges: ">> \o e.message, 500)

Repeat(x, n) == [i \in 1..n |-> x]

\* members a short range list is built from
RangeMemberInputs ==
    {PyStr(RangeS1), PyStr(RangeS1Padded), PyStr(RangeT1), PyStr(RangeNoPrefix),
     None}

\* range lists: every short list, lists at and around the batch limit, and
\* arguments that are no list
RangesInputs ==
    { PyList(xs) : xs \in SeqsUpTo(RangeMemberInputs, MaxRanges) }
    \cup { PyList(Repeat(PyStr(RangeS1), n)) :
             n \in {BatchLimit - 1, BatchLimit, BatchLimit + 1, BatchLimit + 2} }
    \cup { PyList(Repeat(PyStr(RangeNoPrefix), BatchLimit + 1)),
           PyList(Append(Repeat(PyStr(RangeT1), BatchLimit - 1), PyStr(RangeWord))),
           PyList(Append(Repeat(PyStr(RangeS1Padded), BatchLimit - 1), PyStr(RangeT1))) }
    \cup { None, PyStr(RangeS1) }

BatchTokenInputs == {PyStr(<<"t", "k">>), PyStr(<<" ">>), None}

read_multiple_ranges_call(spreadsheet_token, ranges, value_render_option, date_time_render_option) ==
    /\ pc = "idle"
    /\ op' = "read_multiple_ranges"
    /\ args' = [spreadsheet_token |-> spreadsheet_token,
                ranges |-> ranges,
                value_render_option |-> value_render_option,
                date_time_render_option |-> date_time_render_option]
    /\ replies' = <<>>
    /\ IF RequiredStrError(spreadsheet_token, "spreadsheet_token") # <<>>
       THEN RaiseBeforeCall(ValueError(
                RequiredStrError(spreadsheet_token, "spreadsheet_token")))
       ELSE IF RangesError(ranges) # <<>>
       THEN RaiseBeforeCall(RangesError(ranges))
       ELSE IF RenderOptionError(value_render_option, date_time_render_option) # <<>>
       THEN RaiseBeforeCall(ValueError(
                RenderOptionError(value_render_option, date_time_render_option)))
       ELSE SendRequest(
                [method |-> "read_multiple_ranges",
                 kwargs |-> [spreadsheet_token |-> PyStr(Strip(spreadsheet_token.s)),
                             ranges |-> ValidatedRanges(ranges.xs),
                             value_render_option |-> value_render_option,
                             date_time_render_option |-> date_time_render_option]],
                [spreadsheet_token |-> PyStr(Strip(spreadsheet_token.s)),
                 validated_ranges |-> ValidatedRanges(ranges.xs)])

ReadMultipleReplies ==
    { [data |-> [valueRanges |-> v]] : v \in SeqsUpTo(RangeEntries, MaxEntries) }
    \cup { [data |-> << >>], << >> }

read_multiple_ranges_reply(response) ==
    /\ pc = "awaiting"
    /\ op = "read_multiple_ranges"
    /\ replies' = Append(replies, [ok |-> TRUE, response |-> response])
    /\ outcome' = Return(MapRanges(
                      Get(Get(response, "data", <<>>), "valueRanges", <<>>),
                      0, locals.validated_ranges))
    /\ pc' = "done"
    /\ UNCHANGED <<op, args, locals, calls>>

read_multiple_ranges_raise(e) ==
    /\ pc = "awaiting"
    /\ op = "read_multiple_ranges"
    /\ replies' = Append(replies, [ok |-> FALSE, exc |-> e])
    /\ outcome' = Raise(ReadMultipleErrorMapping(e))
    /\ pc' = "done"
    /\ UNCHANGED <<op, args, locals, calls>>


----------------------------------------------------------------------------
(* find_cells *)

\* re.compile(find_text) succeeds: scanning from position i, where repeatable
\* tells whether the preceding item can take a quantifier.  A trailing
\* backslash, an unterminated character class and a quantifier with nothing
\* to repeat are the pattern errors.
RECURSIVE ReScan(_, _, _)
ReScan(s, i, repeatable) ==
    IF i > Len(s) THEN TRUE
    ELSE IF s[i] = "\\"
    THEN i < Len(s) /\ ReScan(s, i + 2, TRUE)
    ELSE IF s[i] = "["
    THEN /\ \E j \in (i + 2)..Len(s) : s[j] = "]"
         /\ ReScan(s, 1 + (CHOOSE j \in (i + 2)..Len(s) :
                              s[j] = "]" /\ \A k \in (i + 2)..(j - 1) : s[k] # "]"),
                   TRUE)
    ELSE IF s[i] \in {"*", "+"}
    THEN repeatable /\ ReScan(s, i + 1, FALSE)
    ELSE ReScan(s, i + 1, TRUE)

ReCompiles(s) == ReScan(s, 1, FALSE)

\* FindResult.from_api_response: ValueError when matched_cells misses
FindResult_from_api_response(find_data) ==
    IF "matched_cells" \in DOMAIN find_data
    THEN [ok |-> TRUE,
          value |-> [matched_cells |-> find_data.matched_cells,
                     matched_formula_cells |->
                         Get(find_data, "matched_formula_cells", <<>>),
                     rows_count |-> Get(find_data, "rows_count", 0)]]
    ELSE [ok |-> FALSE, exc |-> ValueError(<<"missing required field">>)]

\* the except clauses of find_cells
FindErrorMapping_reraise(e) == e

FindErrorMapping(e) ==
    IF e.cls = "FeishuAPIError"
    THEN IF e.code = 1310214
         THEN FeishuAPIError(e.code, <<"spreadsheet does not exist">>, e.http_status)
         ELSE IF e.code = 1310215
         THEN FeishuAPIError(e.code, <<"worksheet does not exist, check sheet_id">>,
                             e.http_status)
         ELSE IF e.code = 1310213
         THEN FeishuAPIError(e.code, <<"no read permission">>, e.http_status)
         ELSE IF e.code = 1310216
         THEN FeishuAPIError(e.code, <<"invalid range format, use A1:B10">>,
                             e.http_status)
         ELSE IF e.code = 1310219
         THEN FeishuAPIError(e.code, <<"invalid regular expression">>,
                             e.http_status)
         ELSE IF is_authentication_error(e)
         THEN FeishuAPIError(e.code, <<"authentication failed">>, e.http_status)
         ELSE e
    ELSE FeishuAPIError(-1, <<"error while finding cells: ">> \o e.message, 500)

\* the argument checks of find_cells in source order: the ValueError raised,
\* or <<>> when all pass
FindCellsError_cellrange(spreadsheet_token, sheet_id, range_spec, find_text, match_case, match_entire_cell, search_by_regex, include_formulas) ==
    IF RequiredStrError(spreadsheet_token, "spreadsheet_token") # <<>>
    THEN ValueError(RequiredStrError(spreadsheet_token, "spreadsheet_token"))
    ELSE IF RequiredStrError(sheet_id, "sheet_id") # <<>>
    THEN ValueError(RequiredStrError(sheet_id, "sheet_id"))
    ELSE IF RequiredStrError(range_spec, "range_spec") # <<>>
    THEN ValueError(RequiredStrError(range_spec, "range_spec"))
    ELSE IF ~validate_range_spec(PyStr(<<"S", "!">> \o Strip(range_spec.s))).ok
    THEN ValueError(<<"invalid cell range">>)
    ELSE IF RequiredStrError(find_text, "find_text") # <<>>
    THEN ValueError(RequiredStrError(find_text, "find_text"))
    ELSE IF ~IsBool(match_case)
    THEN ValueError(<<"match_case must be a boolean">>)
    ELSE IF ~IsBool(match_entire_cell)
    THEN ValueError(<<"match_entire_cell must be a boolean">>)
    ELSE IF ~IsBool(search_by_regex)
    THEN ValueError(<<"search_by_regex must be a boolean">>)
    ELSE IF ~IsBool(include_formulas)
    THEN ValueError(<<"include_formulas must be a boolean">>)
    ELSE IF search_by_regex.b /\ ~ReCompiles(Strip(find_text.s))
    THEN ValueError(<<"Invalid regular expression: ">>)
    ELSE <<>>

FindCellsError(spreadsheet_token, sheet_id, range_spec, find_text, match_case, match_entire_cell, search_by_regex, include_formulas) ==
    IF RequiredStrError(spreadsheet_token, "spreadsheet_token") # <<>>
    THEN ValueError(RequiredStrError(spreadsheet_token, "spreadsheet_token"))
    ELSE IF RequiredStrError(sheet_id, "sheet_id") # <<>>
    THEN ValueError(RequiredStrError(sheet_id, "sheet_id"))
    ELSE IF RequiredStrError(range_spec, "range_spec") # <<>>
    THEN ValueError(RequiredStrError(range_spec, "range_spec"))
    ELSE IF RequiredStrError(find_text, "find_text") # <<>>
    THEN ValueError(RequiredStrError(find_text, "find_text"))
    ELSE IF ~IsBool(match_case)
    THEN ValueError(<<"match_case must be a boolean">>)
    ELSE IF ~IsBool(match_entire_cell)
    THEN ValueError(<<"match_entire_cell must be a boolean">>)
    ELSE IF ~IsBool(search_by_regex)
    THEN ValueError(<<"search_by_regex must be a boolean">>)
    ELSE IF ~IsBool(include_formulas)
    THEN ValueError(<<"include_formulas must be a boolean">>)
    ELSE IF search_by_regex.b /\ ~ReCompiles(Strip(find_text.s))
    THEN ValueError(<<"Invalid regular expression: ">>)
    ELSE <<>>

SheetIdInputs == {PyStr(<<"s", "1">>), PyStr(<<>>), PyStr(<<" ">>), None}

FindTokenInputs == {PyStr(<<"t", "k">>), PyStr(<<>>), None}

FindRangeInputs ==
    {PyStr(RangeNoPrefix), PyStr(RangeNoPrefixPadded), PyStr(RangeWord),
     PyStr(<<" ">>), None}

\* search texts: plain text, the patterns [ and \d+, and patterns whose
\* surrounding whitespace is part of the pattern
FindTextInputs ==
    {PyStr(<<"a">>), PyStr(<<" ", "a", " ">>), PyStr(<<"[">>),
     PyStr(<<"\\", "d", "+">>), PyStr(<<"[", "a", "]", "*">>),
     PyStr(<<" ", "*">>), PyStr(<<"\\", " ">>), PyStr(<<"*">>),
     PyStr(<<>>), PyStr(<<" ">>), None}

FlagInputs == {PyBool(TRUE), PyBool(FALSE), PyInt(1)}

find_cells_call(spreadsheet_token, sheet_id, range_spec, find_text, match_case, match_entire_cell, search_by_regex, include_formulas) ==
    /\ pc = "idle"
    /\ op' = "find_cells"
    /\ args' = [spreadsheet_token |-> spreadsheet_token,
                sheet_id |-> sheet_id,
                range_spec |-> range_spec,
                find_text |-> find_text,
                match_case |-> match_case,
                match_entire_cell |-> match_entire_cell,
                search_by_regex |-> search_by_regex,
                include_formulas |-> include_formulas]
    /\ replies' = <<>>
    /\ LET err == FindCellsError(spreadsheet_token, sheet_id, range_spec,
                                 find_text, match_case, match_entire_cell,
                                 search_by_regex, include_formulas)
       IN IF err # <<>>
          THEN RaiseBeforeCall(err)
          ELSE SendRequest(
                   [method |-> "find_cells",
                    kwargs |-> [spreadsheet_token |-> PyStr(Strip(spreadsheet_token.s)),
                                sheet_id |-> PyStr(Strip(sheet_id.s)),
                                range_spec |-> PyStr(Strip(range_spec.s)),
                                find_text |-> PyStr(Strip(find_text.s)),
                                match_case |-> match_case,
                                match_entire_cell |-> match_entire_cell,
                                search_by_regex |-> search_by_regex,
                                include_formulas |-> include_formulas]],
                   [spreadsheet_token |-> PyStr(Strip(spreadsheet_token.s)),
                    find_text |-> PyStr(Strip(find_text.s))])

FindReplies ==
    { [data |-> [find_result |->
                   [matched_cells |-> m, matched_formula_cells |-> <<>>,
                    rows_count |-> Len(m)]]] :
        m \in {<<>>, <<"A1:A1">>, <<"B2:B2", "A1:A1">>} }
    \cup { [data |-> [find_result |-> [rows_count |-> 0]]],
           [data |-> << >>], << >> }

find_cells_reply(response) ==
    /\ pc = "awaiting"
    /\ op = "find_cells"
    /\ replies' = Append(replies, [ok |-> TRUE, response |-> response])
    /\ LET find_data == Get(Get(response, "data", <<>>), "find_result", <<>>)
           r == FindResult_from_api_response(find_data)
       IN outcome' = IF r.ok THEN Return(r.value)
                     ELSE Raise(FindErrorMapping(r.exc))
    /\ pc' = "done"
    /\ UNCHANGED <<op, args, locals, calls>>

find_cells_raise(e) ==
    /\ pc = "awaiting"
    /\ op = "find_cells"
    /\ replies' = Append(replies, [ok |-> FALSE, exc |-> e])
    /\ outcome' = Raise(FindErrorMapping(e))
    /\ pc' = "done"
    /\ UNCHANGED <<op, args, locals, calls>>

----------------------------------------------------------------------------
(* Rate Limiter: a sliding window of admission timestamps shared by every   *)
(* outbound call of one client.  The clock counts half seconds.            *)

TicksPerSecond == 2

\* RateLimiter(max_requests, time_window): a fresh limiter retains nothing
RateLimiter(max_requests, time_window) ==
    [max_requests |-> max_requests, time_window |-> time_window,
     requests |-> <<>>]

\* the limiters of the model: 2 per second, 1 per second, 2 per 1.5 seconds
LimiterConfigs ==
    { RateLimiter(2, 1 * TicksPerSecond), RateLimiter(1, 1 * TicksPerSecond),
      RateLimiter(2, 3) }

\* the timestamps still inside the window that ends at time t
Prune_early(requests, t, time_window) ==
    SelectSeq(requests, LAMBDA x : t - x < time_window - 1)

Prune(requests, t, time_window) ==
    SelectSeq(requests, LAMBDA x : t - x < time_window)

\* whether the retained count leaves room for one more request
Admissible_inclusive(requests, max_requests) == Len(requests) <= max_requests

Admissible(requests, max_requests) == Len(requests) < max_requests

\* the time at which the oldest retained timestamp leaves the window
RetryAt(requests, time_window) == requests[1] + time_window

\* get_current_usage(): the observable usage of the limiter at time t
get_current_usage(l, t) ==
    LET n == Len(Prune(l.requests, t, l.time_window))
    IN [current_requests |-> n,
        max_requests |-> l.max_requests,
        time_window |-> l.time_window,
        usage_percentage |-> (n * 100) \div l.max_requests]

Callers == 1..MaxCallers

\* a request that has not asked for admission yet, and one that was admitted
NotWaiting == [state |-> "idle"]
Admitted == [state |-> "admitted"]

\* one pass of the admission loop for caller p, who asked at time `asked`
\* and, if it was delayed before, saw `oldest` as the oldest timestamp of
\* the full window (-1 when never delayed): prune, check and insert with no
\* suspension in between; on a full window suspend until RetryAt
Admit(p, asked, oldest) ==
    LET retained == Prune(limiter.requests, now, limiter.time_window)
    IN IF Admissible(retained, limiter.max_requests)
       THEN /\ limiter' = [limiter EXCEPT !.requests = Append(retained, now)]
            /\ waiters' = [waiters EXCEPT ![p] = Admitted]
            /\ admissions' = Append(admissions,
                   [caller |-> p, asked |-> asked, at |-> now,
                    oldest |-> oldest])
       ELSE /\ limiter' = [limiter EXCEPT !.requests = retained]
            /\ waiters' = [waiters EXCEPT ![p] =
                   [state |-> "sleeping", asked |-> asked,
                    oldest |-> IF oldest = -1 THEN retained[1] ELSE oldest,
                    wake |-> RetryAt(retained, limiter.time_window)]]
            /\ admissions' = admissions

\* request p asks for admission
admit_call(p) ==
    /\ waiters[p].state = "idle"
    /\ now <= MaxTime
    /\ Admit(p, now, -1)
    /\ UNCHANGED <<now, queryVars, credentialVars, executorVars, sessionVars, taskVars>>

\* a delayed caller's sleep is over (at its wake time or later): it retries
admit_resume(p) ==
    /\ waiters[p].state = "sleeping"
    /\ now >= waiters[p].wake
    /\ Admit(p, waiters[p].asked, waiters[p].oldest)
    /\ UNCHANGED <<now, queryVars, credentialVars, executorVars, sessionVars, taskVars>>

\* time passes; past MaxTime only while a delayed caller still waits
Tick ==
    /\ \/ now < MaxTime
       \/ \E p \in Callers : waiters[p].state = "sleeping" /\ waiters[p].wake > now
    /\ now' = now + 1
    /\ UNCHANGED <<limiter, waiters, admissions, queryVars, credentialVars,
                   executorVars, sessionVars, taskVars>>

\* a client constructed with one of the limiters, nothing admitted yet
LimiterStart(configs) ==
    /\ now = 0
    /\ limiter \in configs
    /\ waiters = [p \in Callers |-> NotWaiting]
    /\ admissions = <<>>

----------------------------------------------------------------------------
(* Credential Manager: the cached tenant access token of one client and its *)
(* single-flight refresh                                                    *)

\* ticks a fetched token lives, and the remaining life at or below which
\* the cached token is refreshed
TokenLifetime == 2
SafetyMargin == 1

\* AuthenticationManager(app_id, app_secret): nothing cached, no refresh
AuthenticationManager ==
    [token |-> 0, expires_at |-> 0, refreshing |-> 0]

\* the cached token is usable at time t: it exists and more than the
\* safety margin of its life remains
TokenValid(c, t) == c.token # 0 /\ c.expires_at - t > SafetyMargin

\* whether a getter that finds no usable token sends its own fetch: only
\* when no refresh is in flight
StartsFetch_always(c) == TRUE

StartsFetch(c) == c.refreshing = 0

\* the fetches the provider has not answered yet
InFlight == { k \in 1..Len(flights) : flights[k].state = "inflight" }

\* the fetches the provider has answered
Answered == { k \in 1..Len(flights) : flights[k].state # "inflight" }

\* caller p calls get_tenant_access_token(): a usable cached token is
\* returned at once; otherwise p joins the refresh in flight, or starts one
get_token_call(p) ==
    /\ getters[p].state = "idle"
    /\ IF TokenValid(credential, now)
       THEN /\ getters' = [getters EXCEPT ![p] =
                   [state |-> "done", epoch |-> Cardinality(Answered),
                    flight |-> 0, ok |-> TRUE, token |-> credential.token]]
            /\ UNCHANGED <<credential, flights>>
       ELSE IF StartsFetch(credential)
       THEN /\ flights' = Append(flights, [state |-> "inflight", owner |-> p])
            /\ credential' = [credential EXCEPT !.refreshing = Len(flights) + 1]
            /\ getters' = [getters EXCEPT ![p] =
                   [state |-> "fetching", epoch |-> Cardinality(Answered),
                    flight |-> Len(flights) + 1]]
       ELSE /\ getters' = [getters EXCEPT ![p] =
                   [state |-> "joined", epoch |-> Cardinality(Answered),
                    flight |-> credential.refreshing]]
            /\ UNCHANGED <<credential, flights>>
    /\ UNCHANGED <<now, limiter, waiters, admissions, queryVars, executorVars, sessionVars, taskVars>>

\* the provider answers fetch k with a new token (fetch k yields token k):
\* the owner caches it with its expiry and returns it
fetch_reply(k) ==
    /\ k \in InFlight
    /\ flights' = [flights EXCEPT ![k] =
           [state |-> "ok", owner |-> flights[k].owner, token |-> k]]
    /\ credential' = [token |-> k, expires_at |-> now + TokenLifetime,
                      refreshing |-> IF credential.refreshing = k THEN 0
                                     ELSE credential.refreshing]
    /\ getters' = [getters EXCEPT ![flights[k].owner] =
           [state |-> "done", epoch |-> getters[flights[k].owner].epoch,
            flight |-> k, ok |-> TRUE, token |-> k]]
    /\ UNCHANGED <<now, limiter, waiters, admissions, queryVars, executorVars, sessionVars, taskVars>>

\* fetch k fails: nothing is cached, the owner gets the Authentication error
fetch_fail(k) ==
    /\ k \in InFlight
    /\ flights' = [flights EXCEPT ![k] =
           [state |-> "failed", owner |-> flights[k].owner, token |-> 0]]
    /\ credential' = [credential EXCEPT !.refreshing =
                         IF credential.refreshing = k THEN 0
                         ELSE credential.refreshing]
    /\ getters' = [getters EXCEPT ![flights[k].owner] =
           [state |-> "done", epoch |-> getters[flights[k].owner].epoch,
            flight |-> k, ok |-> FALSE, token |-> 0]]
    /\ UNCHANGED <<now, limiter, waiters, admissions, queryVars, executorVars, sessionVars, taskVars>>

\* a caller that joined a refresh resumes with the result of that refresh
get_token_resume(p) ==
    /\ getters[p].state = "joined"
    /\ getters[p].flight \in Answered
    /\ getters' = [getters EXCEPT ![p] =
           [state |-> "done", epoch |-> getters[p].epoch,
            flight |-> getters[p].flight,
            ok |-> flights[getters[p].flight].state = "ok",
            token |-> flights[getters[p].flight].token]]
    /\ UNCHANGED <<credential, flights>>
    /\ UNCHANGED <<now, limiter, waiters, admissions, queryVars, executorVars, sessionVars, taskVars>>

\* a constructed manager, no getter called yet
CredentialStart ==
    /\ credential = AuthenticationManager
    /\ getters = [p \in Callers |-> [state |-> "idle"]]
    /\ flights = <<>>

----------------------------------------------------------------------------
(* Request Executor: execute(method, path, body) obtains a token, waits for  *)
(* admission, performs the network call and retries by the class of the    *)
(* failure                                                                 *)

\* the fixed retry budget: most attempts spent on retryable failures
RetryBudget == 3

\* codes the provider uses for a rate-limited request
RateLimitCodes == {99991400}

\* Error Classifier: the category of a failure envelope; never fails, an
\* unmapped code is Unknown
classify(provider_code, http_status) ==
    IF provider_code \in AuthCodes THEN "Authentication"
    ELSE IF provider_code \in RateLimitCodes \/ http_status = 429 THEN "RateLimited"
    ELSE IF provider_code \in {1310213, 1061004} THEN "Permission"
    ELSE IF provider_code \in {1310214, 1310215} THEN "NotFound"
    ELSE IF provider_code \in {1310216, 1310219} THEN "FormatInvalid"
    ELSE IF provider_code = 1310218 THEN "SizeLimit"
    ELSE "Unknown"

\* what one network call can end in: a transport-level failure (timeout,
\* connection reset), a success envelope (code 0), a failure envelope
TransportFailure == [kind |-> "transport"]
SuccessEnvelope == [kind |-> "envelope", code |-> 0, http_status |-> 200]
FailureEnvelopes ==
    { [kind |-> "envelope", code |-> c, http_status |-> 400] :
        c \in {99991663, 99991400, 1310213, 1310214, 1310216, 1310218, 1310299} }
    \cup { [kind |-> "envelope", code |-> 1310299, http_status |-> 429] }
CallResults == {TransportFailure, SuccessEnvelope} \cup FailureEnvelopes

\* the classified error of a failed call
Classified(result) ==
    IF result.kind = "transport"
    THEN [category |-> "Unknown", transport |-> TRUE, code |-> -1,
          http_status |-> 0]
    ELSE [category |-> classify(result.code, result.http_status),
          transport |-> FALSE, code |-> result.code,
          http_status |-> result.http_status]

\* whether a failure of this class is retried within the budget
RetriedWithinBudget_all(e) == TRUE

RetriedWithinBudget(e) == e.transport \/ e.category = "RateLimited"

\* whether an Authentication failure forces a refresh and one retry: only
\* the first one of an execute()
RefreshesOnAuth_every(x) == TRUE

RefreshesOnAuth(x) == x.auth_failures = 0

\* whether the budget allows another attempt
BudgetLeft_unbounded(x) == x.attempts < RetryBudget + 2

BudgetLeft(x) == x.attempts < RetryBudget

NotExecuting ==
    [pc |-> "idle", attempts |-> 0, auth_failures |-> 0, refreshes |-> 0,
     results |-> <<>>, last_error |-> None, outcome |-> NoOutcome]

\* execute() is called: token, admission, then the first network call
execute_call ==
    /\ exec.pc = "idle"
    /\ exec' = [exec EXCEPT !.pc = "calling", !.attempts = 1]
    /\ UNCHANGED <<queryVars, limiterVars, credentialVars, sessionVars, taskVars>>

\* the network call of the current attempt ends in `result`
network_result(result) ==
    /\ exec.pc = "calling"
    /\ LET x == [exec EXCEPT !.results = Append(exec.results, result)]
           e == Classified(result)
       IN IF result.kind = "envelope" /\ result.code = 0
          THEN exec' = [x EXCEPT !.pc = "done", !.outcome = Return(result)]
          ELSE IF e.category = "Authentication"
          THEN IF RefreshesOnAuth(exec)
               THEN exec' = [x EXCEPT !.pc = "refreshing", !.last_error = e,
                                      !.auth_failures = exec.auth_failures + 1]
               ELSE exec' = [x EXCEPT !.pc = "done", !.last_error = e,
                                      !.auth_failures = exec.auth_failures + 1,
                                      !.outcome = Raise(e)]
          ELSE IF RetriedWithinBudget(e) /\ BudgetLeft(exec)
          THEN exec' = [x EXCEPT !.pc = "backoff", !.last_error = e]
          ELSE exec' = [x EXCEPT !.pc = "done", !.last_error = e,
                                 !.outcome = Raise(e)]
    /\ UNCHANGED <<queryVars, limiterVars, credentialVars, sessionVars, taskVars>>

\* the backoff delay is over: the request is issued again
backoff_over ==
    /\ exec.pc = "backoff"
    /\ exec' = [exec EXCEPT !.pc = "calling", !.attempts = exec.attempts + 1]
    /\ UNCHANGED <<queryVars, limiterVars, credentialVars, sessionVars, taskVars>>

\* the forced credential refresh is done: the request is issued again
refresh_done ==
    /\ exec.pc = "refreshing"
    /\ exec' = [exec EXCEPT !.pc = "calling", !.attempts = exec.attempts + 1,
                            !.refreshes = exec.refreshes + 1]
    /\ UNCHANGED <<queryVars, limiterVars, credentialVars, sessionVars, taskVars>>

ExecutorStart == exec = NotExecuting

----------------------------------------------------------------------------
(* FeishuAPIClient: the lazily created session.  A session is a number     *)
(* (0 is None); the client has created the sessions 1..created.            *)

\* FeishuAPIClient(auth_manager): no session yet.  `history` records each
\* operation with the session it found and the session it left (returned,
\* for _get_session)
FeishuAPIClient ==
    [session |-> 0, created |-> 0, closed |-> {}, in_context |-> FALSE,
     history |-> <<>>]

\* the session _get_session leaves in the client: the existing one, a new
\* one when there is none
SessionAfterGet_new(c) == c.created + 1

SessionAfterGet(c) == IF c.session = 0 THEN c.created + 1 ELSE c.session

\* the client after _get_session or __aenter__ made sure of a session
WithSession(c, how) ==
    LET sess == SessionAfterGet(c)
    IN [c EXCEPT !.session = sess,
                 !.created = IF sess > c.created THEN sess ELSE c.created,
                 !.history = Append(c.history,
                     [op |-> how, before |-> c.session, after |-> sess])]

\* the client after close(): an existing session is closed and forgotten,
\* none is a no-op
Closed(c, how) ==
    [c EXCEPT !.session = 0,
              !.closed = IF c.session = 0 THEN c.closed
                         ELSE c.closed \cup {c.session},
              !.history = Append(c.history,
                  [op |-> how, before |-> c.session, after |-> 0])]

\* session = await client._get_session()
get_session ==
    /\ Len(client.history) < MaxOps
    /\ client' = WithSession(client, "_get_session")
    /\ UNCHANGED <<queryVars, limiterVars, credentialVars, executorVars, taskVars>>

\* await client.close()
close ==
    /\ Len(client.history) < MaxOps
    /\ client' = Closed(client, "close")
    /\ UNCHANGED <<queryVars, limiterVars, credentialVars, executorVars, taskVars>>

\* async with FeishuAPIClient(auth_manager) as client: entering
aenter ==
    /\ Len(client.history) < MaxOps
    /\ ~client.in_context
    /\ client' = [WithSession(client, "__aenter__") EXCEPT !.in_context = TRUE]
    /\ UNCHANGED <<queryVars, limiterVars, credentialVars, executorVars, taskVars>>

\* leaving the async with block
aexit ==
    /\ Len(client.history) < MaxOps
    /\ client.in_context
    /\ client' = [Closed(client, "__aexit__") EXCEPT !.in_context = FALSE]
    /\ UNCHANGED <<queryVars, limiterVars, credentialVars, executorVars, taskVars>>

SessionStart == client = FeishuAPIClient

----------------------------------------------------------------------------
(* Concurrent invocations of list_spreadsheets on one client: each has its  *)
(* own frame (arguments and locals), all share the api_client              *)

MaxTasks == 2

Tasks == 1..MaxTasks

\* the locals of a frame before its first assignment
NoLocals ==
    [page_size |-> None, folder_token |-> None, spreadsheets |-> <<>>,
     page_token |-> None]

NotInvoked ==
    [pc |-> "idle", locals |-> NoLocals, calls |-> <<>>, replies |-> <<>>,
     outcome |-> NoOutcome]

\* spreadsheets and page_token are locals of the coroutine: invocation i
\* reads and writes its own frame
TaskLocals_shared(i) == tasks[1].locals

TaskLocals(i) == tasks[i].locals

\* arguments of the concurrent invocations, one of them invalid
TaskInputs == {<<PyStr(<<" ", "f", " ">>), PyInt(201)>>, <<None, PyInt(0)>>}

\* pages the shared client hands out: one sheet each, continuing or final
TaskReplies ==
    { [data |-> [files |-> <<f>>, page_token |-> t]] :
        f \in {e \in FileEntries : e.token \in {"sheet1", "sheet2"}},
        t \in ContinueTokens \cup {None} }

TaskErrors == {FeishuAPIError(1061004, <<"provider message">>, 403)}

task_call(i, folder_token, page_size) ==
    /\ tasks[i].pc = "idle"
    /\ tasks' = [tasks EXCEPT ![i] =
         IF ListPageSizeError(page_size)
         THEN [@ EXCEPT !.pc = "done",
                        !.outcome = Raise(ValueError(
                            <<"page_size must be a positive integer">>))]
         ELSE IF ListFolderError(folder_token)
         THEN [@ EXCEPT !.pc = "done",
                        !.outcome = Raise(ValueError(
                            <<"folder_token must be a non-empty string if provided">>))]
         ELSE [@ EXCEPT !.pc = "awaiting",
                        !.locals = [page_size |-> CappedPageSize(page_size),
                                    folder_token |-> StrippedFolder(folder_token),
                                    spreadsheets |-> <<>>,
                                    page_token |-> None],
                        !.calls = <<ListFilesRequest(StrippedFolder(folder_token),
                                                     CappedPageSize(page_size),
                                                     None)>>]]
    /\ UNCHANGED <<queryVars, limiterVars, credentialVars, executorVars, sessionVars>>

task_reply(i, response) ==
    /\ tasks[i].pc = "awaiting"
    /\ Len(tasks[i].calls) < MaxPages \/ ~ListContinues(response)
    /\ LET loc == TaskLocals(i)
           files == Get(Get(response, "data", <<>>), "files", <<>>)
           spreadsheets == AppendPage(loc.spreadsheets, files)
           page_token == Get(Get(response, "data", <<>>), "page_token", None)
           answered == Append(tasks[i].replies, [ok |-> TRUE, response |-> response])
           frame == [loc EXCEPT !.spreadsheets = spreadsheets,
                                !.page_token = page_token]
       IN tasks' = [tasks EXCEPT ![i] =
            IF ~Truthy(page_token)
            THEN [@ EXCEPT !.pc = "done", !.locals = frame, !.replies = answered,
                           !.outcome = Return(spreadsheets)]
            ELSE [@ EXCEPT !.locals = frame, !.replies = answered,
                           !.calls = Append(@, ListFilesRequest(
                               loc.folder_token, loc.page_size, page_token))]]
    /\ UNCHANGED <<queryVars, limiterVars, credentialVars, executorVars, sessionVars>>

task_raise(i, e) ==
    /\ tasks[i].pc = "awaiting"
    /\ tasks' = [tasks EXCEPT ![i] =
         [@ EXCEPT !.pc = "done",
                   !.replies = Append(@, [ok |-> FALSE, exc |-> e]),
                   !.outcome = Raise(ListErrorMapping(e))]]
    /\ UNCHANGED <<queryVars, limiterVars, credentialVars, executorVars, sessionVars>>

TaskStart == tasks = [i \in Tasks |-> NotInvoked]

----------------------------------------------------------------------------

\* no query operation invoked yet
QueryStart ==
    /\ pc = "idle"
    /\ op = "none"
    /\ args = <<>>
    /\ locals = <<>>
    /\ calls = <<>>
    /\ replies = <<>>
    /\ outcome = NoOutcome

Init ==
    /\ QueryStart
    /\ LimiterStart({RateLimiter(2, 1 * TicksPerSecond)})
    /\ CredentialStart
    /\ ExecutorStart
    /\ SessionStart
    /\ TaskStart

Next ==
    \/ /\ pc = "idle"
       /\ \E f \in FolderInputs, p \in PageSizeInputs : list_spreadsheets_call(f, p)
       /\ UNCHANGED <<limiterVars, credentialVars, executorVars, sessionVars, taskVars>>
    \/ /\ pc = "awaiting"
       /\ \E r \in ListReplies : list_files_reply(r)
       /\ UNCHANGED <<limiterVars, credentialVars, executorVars, sessionVars, taskVars>>
    \/ /\ pc = "awaiting"
       /\ \E e \in ApiErrors : list_files_raise(e)
       /\ UNCHANGED <<limiterVars, credentialVars, executorVars, sessionVars, taskVars>>
    \/ /\ pc = "idle"
       /\ \E t \in TokenInputs : get_worksheets_call(t)
       /\ UNCHANGED <<limiterVars, credentialVars, executorVars, sessionVars, taskVars>>
    \/ /\ pc = "awaiting"
       /\ \E r \in WorksheetReplies : get_worksheets_reply(r)
       /\ UNCHANGED <<limiterVars, credentialVars, executorVars, sessionVars, taskVars>>
    \/ /\ pc = "awaiting"
       /\ \E e \in ApiErrors : get_worksheets_raise(e)
       /\ UNCHANGED <<limiterVars, credentialVars, executorVars, sessionVars, taskVars>>
    \/ /\ pc = "idle"
       /\ \E t \in TokenInputs, r \in RangeInputs, v \in ValueOptionInputs,
             d \in DateTimeOptionInputs : read_range_call(t, r, v, d)
       /\ UNCHANGED <<limiterVars, credentialVars, executorVars, sessionVars, taskVars>>
    \/ /\ pc = "awaiting"
       /\ \E r \in ReadRangeReplies : read_range_reply(r)
       /\ UNCHANGED <<limiterVars, credentialVars, executorVars, sessionVars, taskVars>>
    \/ /\ pc = "awaiting"
       /\ \E e \in ApiErrors : read_range_raise(e)
       /\ UNCHANGED <<limiterVars, credentialVars, executorVars, sessionVars, taskVars>>
    \/ /\ pc = "idle"
       /\ \E t \in BatchTokenInputs, r \in RangesInputs, v \in ValueOptionInputs,
             d \in DateTimeOptionInputs : read_multiple_ranges_call(t, r, v, d)
       /\ UNCHANGED <<limiterVars, credentialVars, executorVars, sessionVars, taskVars>>
    \/ /\ pc = "awaiting"
       /\ \E r \in ReadMultipleReplies : read_multiple_ranges_reply(r)
       /\ UNCHANGED <<limiterVars, credentialVars, executorVars, sessionVars, taskVars>>
    \/ /\ pc = "awaiting"
       /\ \E e \in ApiErrors : read_multiple_ranges_raise(e)
       /\ UNCHANGED <<limiterVars, credentialVars, executorVars, sessionVars, taskVars>>
    \/ /\ pc = "idle"
       /\ \E t \in FindTokenInputs, sh \in SheetIdInputs, r \in FindRangeInputs,
             x \in FindTextInputs, mc \in FlagInputs, me \in {PyBool(FALSE), None},
             re \in FlagInputs, fo \in {PyBool(FALSE), PyStr(<<"n", "o">>)} :
             find_cells_call(t, sh, r, x, mc, me, re, fo)
       /\ UNCHANGED <<limiterVars, credentialVars, executorVars, sessionVars, taskVars>>
    \/ /\ pc = "awaiting"
       /\ \E r \in FindReplies : find_cells_reply(r)
       /\ UNCHANGED <<limiterVars, credentialVars, executorVars, sessionVars, taskVars>>
    \/ /\ pc = "awaiting"
       /\ \E e \in ApiErrors : find_cells_raise(e)
       /\ UNCHANGED <<limiterVars, credentialVars, executorVars, sessionVars, taskVars>>

Spec == Init /\ [][Next]_vars

\* the awaited list_files call completes: it returns a page or it raises
ListFilesAnswered ==
    /\ \/ \E r \in ListReplies : list_files_reply(r)
       \/ \E e \in ApiErrors : list_files_raise(e)
    /\ UNCHANGED <<limiterVars, credentialVars, executorVars, sessionVars, taskVars>>

FairSpec == Spec /\ WF_vars(ListFilesAnswered)

\* the limiter of one client under concurrent admissions
LimiterInit ==
    /\ QueryStart
    /\ LimiterStart(LimiterConfigs)
    /\ CredentialStart
    /\ ExecutorStart
    /\ SessionStart
    /\ TaskStart

LimiterNext ==
    \/ \E p \in Callers : admit_call(p)
    \/ \E p \in Callers : admit_resume(p)
    \/ Tick

SpecLimiter == LimiterInit /\ [][LimiterNext]_vars

\* timers fire and time passes: a sleep that is over is resumed
FairSpecLimiter ==
    /\ SpecLimiter
    /\ WF_vars(Tick)
    /\ \A p \in Callers : WF_vars(admit_resume(p))

\* the credential manager of one client under concurrent getters
CredentialNext ==
    \/ \E p \in Callers : get_token_call(p)
    \/ \E k \in 1..MaxCallers : fetch_reply(k)
    \/ \E k \in 1..MaxCallers : fetch_fail(k)
    \/ \E p \in Callers : get_token_resume(p)
    \/ Tick

SpecCredential == Init /\ [][CredentialNext]_vars

\* one execute() against a provider that answers as it likes
ExecutorNext ==
    \/ execute_call
    \/ \E r \in CallResults : network_result(r)
    \/ backoff_over
    \/ refresh_done

SpecExecutor == Init /\ [][ExecutorNext]_vars

\* one client whose session is asked for, entered, left and closed
SessionNext ==
    \/ get_session
    \/ close
    \/ aenter
    \/ aexit

SpecSession == Init /\ [][SessionNext]_vars

\* every network call carries a bounded timeout and every delay ends, so a
\* started execute() keeps making steps
FairSpecExecutor == SpecExecutor /\ WF_vars(ExecutorNext)

\* list_spreadsheets invoked concurrently on one client: the invocations
\* interleave at their awaits
TaskNext ==
    \/ \E i \in Tasks, a \in TaskInputs : task_call(i, a[1], a[2])
    \/ \E i \in Tasks, r \in TaskReplies : task_reply(i, r)
    \/ \E i \in Tasks, e \in TaskErrors : task_raise(i, e)

SpecTasks == Init /\ [][TaskNext]_vars

----------------------------------------------------------------------------
(* Properties of list_spreadsheets *)

\* the list_files replies received so far were all successful
AllRepliesOk == \A k \in 1..Len(replies) : replies[k].ok

\* the entries of every page received, in arrival order
RECURSIVE ReceivedFiles(_)
ReceivedFiles(rs) ==
    IF rs = <<>> THEN <<>>
    ELSE Get(Get(Head(rs).response, "data", <<>>), "files", <<>>)
         \o ReceivedFiles(Tail(rs))

\* a provider entry that is a spreadsheet document with all its fields
IsSheetDocument(f) ==
    /\ "type" \in DOMAIN f
    /\ f.type = PyStr(<<"s", "h", "e", "e", "t">>)
    /\ "url" \in DOMAIN f
    /\ "token" \in DOMAIN f

TokensOf(docs) == [i \in 1..Len(docs) |-> docs[i].token]

\* C1: a listing answered with n pages (a non-empty page_token on the first
\* n-1 replies, none on the n-th) issues exactly n list_files requests and
\* returns the documents of page 1, page 2, ..., page n, each page in the
\* order the provider returned it.
C1_PagesConcatenatedInOrder ==
    (/\ op = "list_spreadsheets"
     /\ replies # <<>>
     /\ AllRepliesOk
     /\ \A k \in 1..(Len(replies) - 1) : ListContinues(replies[k].response)
     /\ ~ListContinues(replies[Len(replies)].response))
    => /\ pc = "done"
       /\ outcome.kind = "return"
       /\ Len(calls) = Len(replies)
       /\ TokensOf(outcome.value)
            = TokensOf(SelectSeq(ReceivedFiles(replies), IsSheetDocument))

C1_Witness ==
    /\ op = "list_spreadsheets"
    /\ pc = "done"
    /\ outcome.kind = "return"
    /\ Len(calls) = 2
    /\ Len(replies) = 2
    /\ TokensOf(outcome.value) = <<"sheet2", "sheet1">>
    /\ Len(replies[1].response.data.files) = 1

\* C2: the cursor protocol of one invocation: the first request carries no
\* page_token, request k+1 carries exactly the page_token of reply k, every
\* request carries the same capped page_size and the same trimmed (or None)
\* folder scope, and no request follows the first reply without a token.
C2_CursorProtocol ==
    (op = "list_spreadsheets" /\ calls # <<>>)
    => /\ "page_token" \notin DOMAIN calls[1].kwargs
       /\ \A k \in 1..(Len(calls) - 1) :
            /\ k <= Len(replies)
            /\ replies[k].ok
            /\ "page_token" \in DOMAIN calls[k + 1].kwargs
            /\ calls[k + 1].kwargs.page_token = replies[k].response.data.page_token
            /\ calls[k + 1].kwargs.page_token.s # <<>>
       /\ \A k \in 1..Len(calls) :
            /\ calls[k].method = "list_files"
            /\ calls[k].kwargs.page_size = calls[1].kwargs.page_size
            /\ calls[k].kwargs.folder_token = calls[1].kwargs.folder_token
            /\ NumOf(calls[k].kwargs.page_size) <= MaxPageSize
            /\ calls[k].kwargs.folder_token
                 = IF args.folder_token = None THEN None
                   ELSE PyStr(Strip(args.folder_token.s))
       /\ \A k \in 1..Len(replies) :
            (replies[k].ok /\ ~ListContinues(replies[k].response))
            => Len(calls) <= k

C2_Witness ==
    /\ op = "list_spreadsheets"
    /\ Len(calls) = 2
    /\ Len(replies) = 2
    /\ calls[2].kwargs.page_token = PyStr(<<"t", "B">>)
    /\ args.folder_token = PyStr(<<" ", "f", " ">>)
    /\ args.page_size = PyInt(201)

\* C3: for p > 200 every list_files request is issued with page_size 200,
\* for 0 < p <= 200 with exactly p, and for p <= 0 or a non-integer the
\* operation fails with a validation error and no request is issued.
C3_PageSizeCapped ==
    op = "list_spreadsheets"
    => LET p == args.page_size
       IN IF p.ty = "int" /\ p.n > 200
          THEN \A k \in 1..Len(calls) : calls[k].kwargs.page_size = PyInt(200)
          ELSE IF p.ty = "int" /\ p.n > 0
          THEN \A k \in 1..Len(calls) : calls[k].kwargs.page_size = p
          ELSE /\ calls = <<>>
               /\ pc = "done"
               /\ outcome.kind = "raise"
               /\ outcome.exc.cls = "ValueError"

C3_Witness ==
    /\ op = "list_spreadsheets"
    /\ args.page_size = PyInt(201)
    /\ Len(calls) = 2
    /\ calls[2].kwargs.page_size = PyInt(200)

----------------------------------------------------------------------------
(* Properties of argument validation *)

\* an argument that is no string or is blank after trimming
Blank(v) == ~IsStr(v) \/ \A i \in 1..Len(v.s) : v.s[i] = " "

\* the handler ended by raising a ValueError before sending anything
RejectedBeforeNetwork ==
    /\ pc = "done"
    /\ outcome.kind = "raise"
    /\ outcome.exc.cls = "ValueError"
    /\ calls = <<>>
    /\ replies = <<>>

BadRenderOption ==
    \/ args.value_render_option
         \notin {"ToString", "Formula", "FormattedValue", "UnformattedValue"}
    \/ args.date_time_render_option # "FormattedString"

\* some argument of the running operation is invalid
ArgumentInvalid ==
    CASE op = "list_spreadsheets" ->
           \/ args.page_size.ty # "int"
           \/ args.page_size.n < 1
           \/ (args.folder_token # None /\ Blank(args.folder_token))
      [] op = "get_worksheets" -> Blank(args.spreadsheet_token)
      [] op = "read_range" ->
           \/ Blank(args.spreadsheet_token)
           \/ Blank(args.range_spec)
           \/ BadRenderOption
      [] op = "read_multiple_ranges" ->
           \/ Blank(args.spreadsheet_token)
           \/ args.ranges.ty # "list"
           \/ Len(args.ranges.xs) = 0
           \/ Len(args.ranges.xs) > 100
           \/ \E i \in 1..Len(args.ranges.xs) : Blank(args.ranges.xs[i])
           \/ BadRenderOption
      [] op = "find_cells" ->
           \/ Blank(args.spreadsheet_token)
           \/ Blank(args.sheet_id)
           \/ Blank(args.range_spec)
           \/ Blank(args.find_text)
           \/ \E f \in {"match_case", "match_entire_cell", "search_by_regex",
                        "include_formulas"} : args[f].ty # "bool"
      [] OTHER -> FALSE

\* C4: in each of the five operations, whenever an argument validation fails
\* the error is raised with the API client called zero times, and the
\* operation sends nothing afterwards.
C4_ValidationBeforeNetwork == ArgumentInvalid => RejectedBeforeNetwork

C4_Witness ==
    /\ op = "find_cells"
    /\ ~Blank(args.spreadsheet_token)
    /\ ~Blank(args.sheet_id)
    /\ ~Blank(args.range_spec)
    /\ ~Blank(args.find_text)
    /\ args.match_case = PyBool(TRUE)
    /\ args.search_by_regex = PyInt(1)
    /\ RejectedBeforeNetwork

\* a range string without the sheetId! prefix
LacksPrefix(v) == IsStr(v) /\ \A i \in 1..Len(v.s) : v.s[i] # "!"

\* C5: read_range and read_multiple_ranges reject every range string that
\* lacks the sheetId! prefix with a validation error before any network call;
\* no request carrying a repaired string is ever sent.
C5_MissingPrefixRejected ==
    (\/ op = "read_range" /\ LacksPrefix(args.range_spec)
     \/ /\ op = "read_multiple_ranges"
        /\ IsList(args.ranges)
        /\ \E i \in 1..Len(args.ranges.xs) : LacksPrefix(args.ranges.xs[i]))
    => RejectedBeforeNetwork

C5_Witness ==
    /\ op = "read_range"
    /\ args.range_spec = PyStr(RangeNoPrefix)
    /\ ~Blank(args.spreadsheet_token)
    /\ ~BadRenderOption
    /\ RejectedBeforeNetwork

\* C6: read_multiple_ranges with 101 or more range strings, or with an empty
\* list, raises a validation error without any network call; with 1..100
\* valid range strings (and a valid document id and render options) it
\* issues the batch call for exactly those ranges.
C6_BatchLimit ==
    (op = "read_multiple_ranges" /\ IsList(args.ranges))
    => LET n == Len(args.ranges.xs)
       IN /\ (n >= 101 \/ n = 0) => RejectedBeforeNetwork
          /\ (/\ n >= 1
              /\ n <= 100
              /\ \A i \in 1..n : validate_range_spec(args.ranges.xs[i]).ok
              /\ ~Blank(args.spreadsheet_token)
              /\ ~BadRenderOption)
             => /\ Len(calls) = 1
                /\ calls[1].method = "read_multiple_ranges"
                /\ Len(calls[1].kwargs.ranges) = n

C6_Witness ==
    /\ op = "read_multiple_ranges"
    /\ IsList(args.ranges)
    /\ Len(args.ranges.xs) = 100
    /\ Len(calls) = 1
    /\ pc = "done"
    /\ outcome.kind = "return"

----------------------------------------------------------------------------
(* Properties of read_multiple_ranges results *)

\* read_multiple_ranges got a successful reply
BatchReplied ==
    /\ op = "read_multiple_ranges"
    /\ pc = "done"
    /\ replies # <<>>
    /\ replies[1].ok

\* the valueRanges list of the reply, empty when the field is absent
RepliedRanges == Get(Get(replies[1].response, "data", <<>>), "valueRanges", <<>>)

\* a provider range entry with every required field
WellFormedRange(e) ==
    /\ "range" \in DOMAIN e
    /\ "majorDimension" \in DOMAIN e
    /\ "values" \in DOMAIN e
    /\ "revision" \in DOMAIN e

\* C7 as stated: whenever read_multiple_ranges returns, the result list is as
\* long as the requested range list, whatever the provider replied.
C7_LengthEqualsRequest ==
    BatchReplied
    => /\ outcome.kind = "return"
       /\ Len(outcome.value) = Len(args.ranges.xs)

\* C7 amended: whenever read_multiple_ranges returns, the result list is as
\* long as the valueRanges list of the provider's reply (0 when the field is
\* absent); it is as long as the request only when the provider returned one
\* entry per requested range.
C7_LengthEqualsReply ==
    BatchReplied
    => /\ outcome.kind = "return"
       /\ Len(outcome.value) = Len(RepliedRanges)
       /\ (Len(RepliedRanges) = Len(args.ranges.xs)
           => Len(outcome.value) = Len(args.ranges.xs))

C7_Witness ==
    /\ BatchReplied
    /\ Len(args.ranges.xs) = 1
    /\ Len(RepliedRanges) = 2
    /\ ~WellFormedRange(RepliedRanges[1])
    /\ Len(outcome.value) = 2

\* C8 as stated: result order matches request order; for every index i whose
\* provider entry is malformed, result[i] is a placeholder with an empty
\* value grid whose range is the i-th originally requested range string,
\* every well-formed entry stays at its own index, and a malformed entry
\* never aborts the batch.
C8_PlaceholderEchoesRequest ==
    BatchReplied
    => /\ outcome.kind = "return"
       /\ \A i \in 1..Len(RepliedRanges) :
            /\ i <= Len(outcome.value)
            /\ IF WellFormedRange(RepliedRanges[i])
               THEN /\ outcome.value[i].range = RepliedRanges[i].range
                    /\ outcome.value[i].values = RepliedRanges[i].values
               ELSE /\ outcome.value[i].values = <<>>
                    /\ i <= Len(args.ranges.xs)
                    /\ outcome.value[i].range = args.ranges.xs[i]

\* C8 amended: for every index i whose provider entry is malformed,
\* result[i] is a placeholder with an empty value grid whose range is the
\* validated (whitespace-trimmed) form of the i-th requested range string
\* when the request has an i-th range, and the label unknown_range_<i>
\* (0-based) when the provider returned more entries than were requested;
\* every well-formed entry stays at its own index and a malformed entry
\* never aborts the batch.
C8_PlaceholderEchoesValidated ==
    BatchReplied
    => /\ outcome.kind = "return"
       /\ \A i \in 1..Len(RepliedRanges) :
            /\ i <= Len(outcome.value)
            /\ IF WellFormedRange(RepliedRanges[i])
               THEN /\ outcome.value[i].range = RepliedRanges[i].range
                    /\ outcome.value[i].values = RepliedRanges[i].values
               ELSE /\ outcome.value[i].values = <<>>
                    /\ outcome.value[i].range
                         = IF i <= Len(args.ranges.xs)
                           THEN PyStr(Strip(args.ranges.xs[i].s))
                           ELSE PyStr(<<"unknown_range_", ToString(i - 1)>>)

C8_Witness ==
    /\ BatchReplied
    /\ args.ranges.xs = <<PyStr(RangeT1), PyStr(RangeS1Padded)>>
    /\ Len(RepliedRanges) = 2
    /\ WellFormedRange(RepliedRanges[1])
    /\ ~WellFormedRange(RepliedRanges[2])
    /\ outcome.value[2].range = PyStr(RangeS1)

----------------------------------------------------------------------------
(* Properties of find_cells *)

\* every argument of find_cells other than the search pattern is valid and
\* a regular-expression search is requested
RegexSearchRequested ==
    /\ op = "find_cells"
    /\ ~Blank(args.spreadsheet_token)
    /\ ~Blank(args.sheet_id)
    /\ ~Blank(args.range_spec)
    /\ ~Blank(args.find_text)
    /\ args.match_case.ty = "bool"
    /\ args.match_entire_cell.ty = "bool"
    /\ args.include_formulas.ty = "bool"
    /\ args.search_by_regex = PyBool(TRUE)

\* C9: with search_by_regex true, a search text that does not compile as a
\* pattern fails with a validation error and zero network calls; a search
\* text that compiles issues the call and, on a reply with matched_cells,
\* returns a FindResult whose matched-cell list equals the provider's.
C9_RegexCompiledBeforeCall ==
    RegexSearchRequested
    => IF ~ReCompiles(args.find_text.s)
       THEN RejectedBeforeNetwork
       ELSE /\ Len(calls) = 1
            /\ calls[1].method = "find_cells"
            /\ (/\ pc = "done"
                /\ replies[1].ok
                /\ "data" \in DOMAIN replies[1].response
                /\ "find_result" \in DOMAIN replies[1].response.data
                /\ "matched_cells" \in DOMAIN replies[1].response.data.find_result)
               => /\ outcome.kind = "return"
                  /\ outcome.value.matched_cells
                       = replies[1].response.data.find_result.matched_cells

----------------------------------------------------------------------------
(* Properties of the propagated errors *)

\* C10 as stated: every error a query operation propagates, validation
\* failures included, is a typed error carrying a machine-readable code and
\* a human message.
C10_AllErrorsTyped ==
    outcome.kind = "raise"
    => /\ outcome.exc.cls = "FeishuAPIError"
       /\ "code" \in DOMAIN outcome.exc
       /\ outcome.exc.message # <<>>

\* C10 amended: every error propagated once validation has passed (raised by
\* the API call or by the response mapping) is a FeishuAPIError carrying a
\* code, a message and an http status; a validation failure is propagated as
\* a ValueError that carries a human message and no code.
C10_ErrorsTypedAfterValidation ==
    outcome.kind = "raise"
    => IF calls = <<>>
       THEN /\ outcome.exc.cls = "ValueError"
            /\ "code" \notin DOMAIN outcome.exc
            /\ outcome.exc.message # <<>>
       ELSE /\ outcome.exc.cls = "FeishuAPIError"
            /\ outcome.exc.code \in Int
            /\ outcome.exc.http_status \in Int
            /\ outcome.exc.message # <<>>

C10_Witness ==
    /\ op = "find_cells"
    /\ outcome.kind = "raise"
    /\ Len(calls) = 1
    /\ replies # <<>>
    /\ ~replies[1].ok
    /\ replies[1].exc.cls = "RuntimeError"
    /\ outcome.exc.code = -1

----------------------------------------------------------------------------
(* Properties of the except clauses *)

\* the last answer the api_client gave to the handler
LastReply == replies[Len(replies)]

\* x occurs in m as a contiguous run
Contains(m, x) ==
    \E i \in 1..(Len(m) - Len(x) + 1) : SubSeq(m, i, i + Len(x) - 1) = x

\* the handler ended on an exception that is not a typed provider error:
\* the API call raised one, or the response mapping raised after a reply
EndedOnUnexpected ==
    /\ pc = "done"
    /\ replies # <<>>
    /\ \/ ~LastReply.ok /\ LastReply.exc.cls # "FeishuAPIError"
       \/ LastReply.ok /\ outcome.kind = "raise"

\* the handler ended on a typed provider error raised by the API call
EndedOnProviderError ==
    /\ pc = "done"
    /\ replies # <<>>
    /\ ~LastReply.ok
    /\ LastReply.exc.cls = "FeishuAPIError"

\* C11: in every query operation an exception of the API call or of the
\* response mapping that is not a typed provider error is propagated as a
\* FeishuAPIError with code -1 and http status 500 whose message contains
\* the message of the original exception; a typed provider error keeps its
\* code and is never turned into code -1.
C11_UnexpectedWrappedAsMinusOne ==
    /\ EndedOnUnexpected
       => /\ outcome.kind = "raise"
          /\ outcome.exc.cls = "FeishuAPIError"
          /\ outcome.exc.code = -1
          /\ outcome.exc.http_status = 500
          /\ Contains(outcome.exc.message,
                      IF LastReply.ok THEN <<"missing required field">>
                      ELSE LastReply.exc.message)
    /\ EndedOnProviderError
       => /\ outcome.kind = "raise"
          /\ outcome.exc.cls = "FeishuAPIError"
          /\ outcome.exc.code = LastReply.exc.code
          /\ outcome.exc.code # -1

C11_Witness ==
    /\ op = "read_range"
    /\ EndedOnUnexpected
    /\ ~LastReply.ok
    /\ LastReply.exc = ValueError(<<"Unexpected error">>)
    /\ outcome.exc.code = -1
    /\ Len(outcome.exc.message) = 2

\* the localized messages of the three provider codes
NotFoundMessage == <<"spreadsheet does not exist">>
PermissionMessage == <<"no read permission">>
SizeLimitMessages ==
    { <<"data exceeds 10MB limit, narrow the range">>,
      <<"data exceeds 10MB limit, reduce the ranges">> }

\* the operations whose except clause names the code
MapsNotFoundAndPermission ==
    {"get_worksheets", "read_range", "read_multiple_ranges", "find_cells"}
MapsSizeLimit == {"read_range", "read_multiple_ranges"}

\* C12 as stated: whichever of the five operations receives the failure,
\* code 1310214 is propagated with the not-found message, code 1310213 with
\* the permission message and code 1310218 with the size-limit message.
C12_SameMappingEverywhere ==
    EndedOnProviderError
    => /\ LastReply.exc.code = 1310214
          => outcome.exc.message = NotFoundMessage
       /\ LastReply.exc.code = 1310213
          => outcome.exc.message = PermissionMessage
       /\ LastReply.exc.code = 1310218
          => outcome.exc.message \in SizeLimitMessages

\* C12 amended: codes 1310214 and 1310213 get the not-found and the
\* permission message in get_worksheets, read_range, read_multiple_ranges
\* and find_cells; code 1310218 gets a size-limit message in read_range and
\* read_multiple_ranges only; in every other case (all three codes in
\* list_spreadsheets, 1310218 in get_worksheets and find_cells) the provider
\* error is propagated unchanged, with the provider's own message.  The code
\* and the http status are kept in every case.
C12_MappingPerOperation ==
    (EndedOnProviderError /\ LastReply.exc.code \in {1310214, 1310213, 1310218})
    => /\ outcome.kind = "raise"
       /\ outcome.exc.code = LastReply.exc.code
       /\ outcome.exc.http_status = LastReply.exc.http_status
       /\ outcome.exc.message =
            IF LastReply.exc.code = 1310218
            THEN IF op = "read_range"
                 THEN <<"data exceeds 10MB limit, narrow the range">>
                 ELSE IF op = "read_multiple_ranges"
                 THEN <<"data exceeds 10MB limit, reduce the ranges">>
                 ELSE LastReply.exc.message
            ELSE IF op \in MapsNotFoundAndPermission
                 THEN IF LastReply.exc.code = 1310214 THEN NotFoundMessage
                      ELSE PermissionMessage
                 ELSE LastReply.exc.message

C12_Witness ==
    /\ op = "find_cells"
    /\ EndedOnProviderError
    /\ LastReply.exc.code = 1310218
    /\ outcome.kind = "raise"
    /\ outcome.exc = LastReply.exc

----------------------------------------------------------------------------
(* Properties of the entry filters *)

\* the SpreadsheetInfo records of the well-formed sheet entries of a list
SheetRecords(files) ==
    LET kept == SelectSeq(files, IsSheetDocument)
    IN [i \in 1..Len(kept) |-> [token |-> kept[i].token, url |-> kept[i].url]]

\* a provider entry of kind sheet that misses a required field
IsMalformedSheet(f) ==
    /\ Get(f, "type", None) = PyStr(<<"s", "h", "e", "e", "t">>)
    /\ ~IsSheetDocument(f)

\* C13: at every point of a listing whose requests all succeeded, the
\* accumulated result is exactly the subsequence, in arrival order across
\* the pages received, of the entries of kind sheet that are well-formed;
\* an entry of another kind is never included, and a malformed sheet entry
\* is dropped alone: the listing goes on to the next page and ends with a
\* return, never with an error.
C13_ExactlyWellFormedSheets ==
    (op = "list_spreadsheets" /\ calls # <<>> /\ AllRepliesOk)
    => /\ locals.spreadsheets = SheetRecords(ReceivedFiles(replies))
       /\ \A i \in 1..Len(locals.spreadsheets) :
            \E k \in 1..Len(ReceivedFiles(replies)) :
                /\ ReceivedFiles(replies)[k].token = locals.spreadsheets[i].token
                /\ ReceivedFiles(replies)[k].type = PyStr(<<"s", "h", "e", "e", "t">>)
       /\ pc = "done" => outcome = Return(locals.spreadsheets)
       /\ (replies # <<>> /\ pc = "awaiting")
          => /\ ListContinues(LastReply.response)
             /\ Len(calls) = Len(replies) + 1

C13_Witness ==
    /\ op = "list_spreadsheets"
    /\ pc = "done"
    /\ Len(replies) = 2
    /\ AllRepliesOk
    /\ Len(Get(Get(replies[1].response, "data", <<>>), "files", <<>>)) = 1
    /\ IsMalformedSheet(replies[1].response.data.files[1])
    /\ outcome.kind = "return"
    /\ TokensOf(outcome.value) = <<"sheet2">>

\* the WorksheetInfo records of the well-formed entries of a list
IsWorksheet(w) == {"sheet_id", "title", "index"} \subseteq DOMAIN w

WorksheetRecords(sheets) ==
    LET kept == SelectSeq(sheets, IsWorksheet)
    IN [i \in 1..Len(kept) |->
          [sheet_id |-> kept[i].sheet_id, title |-> kept[i].title,
           index |-> kept[i].index]]

\* C14: a get_worksheets call that the provider answers successfully
\* returns exactly the subsequence, in provider order, of the well-formed
\* worksheet entries of the response; a malformed entry is skipped alone,
\* never fails the operation and never drops a well-formed entry.
C14_ExactlyWellFormedWorksheets ==
    (op = "get_worksheets" /\ replies # <<>> /\ LastReply.ok)
    => /\ pc = "done"
       /\ Len(calls) = 1
       /\ outcome = Return(WorksheetRecords(
                        Get(Get(LastReply.response, "data", <<>>), "sheets", <<>>)))

C14_Witness ==
    /\ op = "get_worksheets"
    /\ pc = "done"
    /\ replies # <<>>
    /\ LastReply.ok
    /\ Len(Get(Get(LastReply.response, "data", <<>>), "sheets", <<>>)) = 2
    /\ ~IsWorksheet(LastReply.response.data.sheets[1])
    /\ outcome.kind = "return"
    /\ Len(outcome.value) = 1
    /\ outcome.value[1].sheet_id = "ws2"

----------------------------------------------------------------------------
(* Properties of read_range on incomplete range data *)

\* the valueRange of the successful reply to a read_range request
RepliedRange == Get(Get(LastReply.response, "data", <<>>), "valueRange", <<>>)

\* C15: when the successful response of read_range carries range data that
\* misses required fields, read_range returns a placeholder RangeData whose
\* range is the requested range, and does not fail.
C15_PlaceholderForReadRange ==
    (/\ op = "read_range"
     /\ replies # <<>>
     /\ LastReply.ok
     /\ ~WellFormedRange(RepliedRange))
    => /\ outcome.kind = "return"
       /\ outcome.value.range = locals.range_spec

----------------------------------------------------------------------------
(* Properties of the Rate Limiter *)

\* the admissions granted inside the window that ends at time t
AdmittedInWindow(t) ==
    { k \in 1..Len(admissions) :
        admissions[k].at <= t /\ t - admissions[k].at < limiter.time_window }

\* C16: whatever the callers of one client do and however their admissions
\* interleave, no window of time_window ending at or before now holds more
\* than max_requests admissions, the limiter never retains more than
\* max_requests timestamps, and a limiter that has admitted nothing retains
\* nothing and reports usage 0.
C16_WindowNeverExceeded ==
    /\ \A t \in 0..now :
         Cardinality(AdmittedInWindow(t)) <= limiter.max_requests
    /\ Len(limiter.requests) <= limiter.max_requests
    /\ get_current_usage(limiter, now).current_requests
         = Cardinality(AdmittedInWindow(now))
    /\ admissions = <<>>
       => /\ limiter.requests = <<>>
          /\ get_current_usage(limiter, now).current_requests = 0
          /\ get_current_usage(limiter, now).usage_percentage = 0

C16_Witness ==
    /\ limiter.max_requests = 2
    /\ Len(admissions) = 2
    /\ admissions[1].caller # admissions[2].caller
    /\ admissions[1].at < admissions[2].at
    /\ Cardinality(AdmittedInWindow(now)) = limiter.max_requests
    /\ \E p \in Callers : waiters[p].state = "sleeping"

\* the admissions granted so far respect the sliding window: an admission
\* that was never delayed was granted at the time it was asked for; a
\* delayed one was granted no earlier than time_window after the oldest
\* timestamp of the full window it found; the k-th admission comes no
\* earlier than time_window after the (k - max_requests)-th
DelayedUntilOldestLeaves ==
    \A k \in 1..Len(admissions) :
        LET a == admissions[k]
        IN /\ a.oldest = -1 => a.at = a.asked
           /\ a.oldest # -1 => /\ a.at > a.asked
                               /\ a.at >= a.oldest + limiter.time_window
           /\ k > limiter.max_requests
              => a.at >= admissions[k - limiter.max_requests].at
                           + limiter.time_window

\* three admissions asked for at the same instant of a limiter of 2 per
\* second: the first two are granted at once, the third at least one second
\* after the first
BackToBack ==
    (/\ limiter.max_requests = 2
     /\ limiter.time_window = 1 * TicksPerSecond
     /\ Len(admissions) >= 3
     /\ admissions[1].asked = admissions[2].asked
     /\ admissions[2].asked = admissions[3].asked)
    => /\ admissions[1].at = admissions[1].asked
       /\ admissions[2].at = admissions[2].asked
       /\ admissions[3].at >= admissions[1].at + 1 * TicksPerSecond

\* a caller suspended on a full window waits for a timestamp to leave it,
\* never longer than time_window
SleepsAtMostOneWindow ==
    \A p \in Callers :
        waiters[p].state = "sleeping"
        => /\ waiters[p].wake > waiters[p].asked
           /\ waiters[p].wake <= now + limiter.time_window

\* C17: with max_requests = 2 and a window of one second, of three
\* admissions asked for back to back the first two are granted at once and
\* the third at least one second after the first; in general an admission
\* that finds the window full is delayed until the oldest retained
\* timestamp has left the window, and is then granted.
C17_FullWindowDelays ==
    /\ [](DelayedUntilOldestLeaves /\ BackToBack /\ SleepsAtMostOneWindow)
    /\ \A p \in Callers :
         (waiters[p].state = "sleeping") ~> (waiters[p].state = "admitted")

C17_Witness ==
    /\ limiter.max_requests = 2
    /\ limiter.time_window = 1 * TicksPerSecond
    /\ Len(admissions) = 3
    /\ admissions[1].asked = 0
    /\ admissions[2].asked = 0
    /\ admissions[3].asked = 0
    /\ admissions[3].oldest = 0
    /\ admissions[3].at = 1 * TicksPerSecond

----------------------------------------------------------------------------
(* Properties of the Credential Manager *)

\* the getters that were not served from the cache
Refreshers == { p \in Callers : getters[p].state # "idle" /\ getters[p].flight # 0 }

\* C18: refresh is single-flight.  At no time are two fetches in flight;
\* the getters that find no usable cached token during the same period (no
\* fetch answered in between) are served by one and the same fetch, which
\* only the first of them sent, and all of them receive its result: the
\* same token value, or the same failure.
C18_SingleFlight ==
    /\ Cardinality(InFlight) <= 1
    /\ \A p, q \in Refreshers :
         getters[p].epoch = getters[q].epoch
         => /\ getters[p].flight = getters[q].flight
            /\ (getters[p].state = "done" /\ getters[q].state = "done")
               => /\ getters[p].ok = getters[q].ok
                  /\ getters[p].token = getters[q].token
    /\ \A j, k \in 1..Len(flights) :
         j # k => getters[flights[j].owner].epoch # getters[flights[k].owner].epoch
    /\ (Refreshers # {} /\ \A p \in Refreshers : getters[p].epoch = 0)
       => Len(flights) = 1

C18_Witness ==
    /\ \A p \in Callers :
         /\ getters[p].state = "done"
         /\ getters[p].epoch = 0
         /\ getters[p].flight = 1
         /\ getters[p].ok
         /\ getters[p].token = 1
    /\ Len(flights) = 1
    /\ credential.token = 1

----------------------------------------------------------------------------
(* Properties of the Request Executor *)

\* the attempts of this execute() that failed with an Authentication error
AuthFailures ==
    { i \in 1..Len(exec.results) :
        Classified(exec.results[i]).category = "Authentication"
        /\ exec.results[i] # SuccessEnvelope }

NeverRetried ==
    {"Validation", "Permission", "NotFound", "FormatInvalid", "SizeLimit"}

\* every failure so far was a transport failure or a rate-limited response
OnlyTransientFailures ==
    \A i \in 1..Len(exec.results) :
        \/ exec.results[i] = SuccessEnvelope
        \/ Classified(exec.results[i]).transport
        \/ Classified(exec.results[i]).category = "RateLimited"

\* the attempts of execute() are bounded by the retry budget (one more
\* when an Authentication failure forced a refresh), the error it
\* propagates is the classified error of its last attempt, and a failure of
\* a category that is never retried ends it at once
BoundedAttempts ==
    /\ exec.attempts <= RetryBudget + 1
    /\ Len(exec.results) <= exec.attempts
    /\ OnlyTransientFailures => exec.attempts <= RetryBudget
    /\ (OnlyTransientFailures /\ Len(exec.results) = RetryBudget)
       => exec.pc = "done"
    /\ (exec.pc = "done" /\ exec.outcome.kind = "raise")
       => /\ exec.outcome.exc = Classified(exec.results[Len(exec.results)])
          /\ exec.outcome.exc = exec.last_error
          /\ exec.attempts = Len(exec.results)
    /\ \A i \in 1..Len(exec.results) :
         (exec.results[i] # SuccessEnvelope
          /\ Classified(exec.results[i]).category \in NeverRetried)
         => /\ i = Len(exec.results)
            /\ exec.pc = "done"
            /\ exec.outcome = Raise(Classified(exec.results[i]))
    /\ (exec.results # <<>>
        /\ exec.results[1] # SuccessEnvelope
        /\ Classified(exec.results[1]).category \in NeverRetried)
       => exec.attempts = 1

\* C20: execute() always terminates: under any sequence of transport
\* failures and rate-limited responses it makes at most RetryBudget
\* attempts and then propagates the classified error of the last attempt;
\* Permission, NotFound, FormatInvalid and SizeLimit failures (and
\* Validation, which never reaches the network) are propagated after a
\* single attempt; a started execute() eventually ends.
C20_ExecuteTerminates ==
    /\ []BoundedAttempts
    /\ (exec.pc # "idle") ~> (exec.pc = "done")

C20_Witness ==
    /\ exec.pc = "done"
    /\ exec.attempts = RetryBudget
    /\ Len(exec.results) = RetryBudget
    /\ exec.results[1] = TransportFailure
    /\ exec.results[2] = TransportFailure
    /\ exec.outcome.kind = "raise"
    /\ exec.outcome.exc.category = "RateLimited"

----------------------------------------------------------------------------
(* Properties of the client session *)

\* C21: the session is absent after construction; _get_session and
\* entering the context create a new session when there is none and
\* otherwise return the one there is, so every _get_session between two
\* closes returns the same session; close and leaving the context release
\* the session and leave it absent; close with no session changes nothing;
\* every session the client created is the client's or was released.
C21_SessionLifecycle ==
    LET h == client.history
    IN /\ h = <<>> => client.session = 0 /\ client.created = 0
       /\ h # <<>> => /\ h[1].before = 0
                      /\ client.session = h[Len(h)].after
       /\ \A k \in 1..Len(h) :
            /\ k > 1 => h[k].before = h[k - 1].after
            /\ h[k].op \in {"_get_session", "__aenter__"}
               => /\ h[k].after # 0
                  /\ h[k].before # 0 => h[k].after = h[k].before
                  /\ h[k].before = 0
                     => \A j \in 1..(k - 1) : h[j].after # h[k].after
            /\ h[k].op \in {"close", "__aexit__"} => h[k].after = 0
       /\ client.closed \cup ({client.session} \ {0}) = 1..client.created
       /\ client.session \notin client.closed

C21_Witness ==
    /\ Len(client.history) = 5
    /\ client.history[1].op = "_get_session"
    /\ client.history[2].op = "close"
    /\ client.history[3].op = "close"
    /\ client.history[4].op = "_get_session"
    /\ client.history[5].op = "_get_session"
    /\ client.history[5].after = client.history[4].after
    /\ client.session = 2
    /\ client.closed = {1}

----------------------------------------------------------------------------
(* Properties of validate_range_spec *)

\* two validations agree: both fail, or both return the same string
SameValidation(r1, r2) ==
    /\ r1.ok = r2.ok
    /\ r1.ok => r1.value = r2.value

\* C22: for the range string x given to read_range, validating x gives the
\* same result as validating x trimmed; a valid x yields x trimmed, and
\* validating that result again returns it unchanged; the request carries
\* the validated string.
C22_ValidateTrimsAndIsIdempotent ==
    (op = "read_range" /\ IsStr(args.range_spec))
    => LET x == args.range_spec
           r == validate_range_spec(x)
       IN /\ SameValidation(r, validate_range_spec(PyStr(Strip(x.s))))
          /\ r.ok => /\ r.value = PyStr(Strip(x.s))
                     /\ validate_range_spec(r.value) = r
          /\ (r.ok /\ calls # <<>>) => calls[1].kwargs.range_spec = r.value
          /\ ~r.ok => calls = <<>>

C22_Witness ==
    /\ op = "read_range"
    /\ args.range_spec = PyStr(RangeS1Padded)
    /\ pc = "awaiting"
    /\ calls[1].kwargs.range_spec = PyStr(RangeS1)

----------------------------------------------------------------------------
(* Properties of the handling of typed provider errors *)

\* the codes named by the except FeishuAPIError clause of each operation
SpecificCodes ==
    [list_spreadsheets |-> {1061004},
     get_worksheets |-> {1310214, 1310213},
     read_range |-> {1310214, 1310215, 1310213, 1310216, 1310218},
     read_multiple_ranges |-> {1310214, 1310215, 1310213, 1310216, 1310218},
     find_cells |-> {1310214, 1310215, 1310213, 1310216, 1310219}]

AuthenticationMessage == <<"authentication failed">>

\* C23: when the API call of a query operation raises a typed provider
\* error, exactly one branch is taken, in this order: a code named by the
\* operation gets that operation's localized message; otherwise an
\* authentication error gets the authentication message; otherwise the
\* original error is raised again unchanged (same code, message and http
\* status).
C23_OneBranchInOrder ==
    EndedOnProviderError
    => /\ outcome.kind = "raise"
       /\ IF LastReply.exc.code \in SpecificCodes[op]
          THEN /\ outcome.exc.cls = "FeishuAPIError"
               /\ outcome.exc.code = LastReply.exc.code
               /\ outcome.exc.message
                    \notin {LastReply.exc.message, AuthenticationMessage}
          ELSE IF is_authentication_error(LastReply.exc)
          THEN outcome.exc = FeishuAPIError(LastReply.exc.code,
                                            AuthenticationMessage,
                                            LastReply.exc.http_status)
          ELSE outcome.exc = LastReply.exc

C23_Witness ==
    /\ op = "list_spreadsheets"
    /\ EndedOnProviderError
    /\ LastReply.exc.code = 99991663
    /\ outcome.kind = "raise"
    /\ outcome.exc.message = AuthenticationMessage

\* C24: whenever the error raised differs in message from the provider
\* error received, it is a FeishuAPIError with the provider's code and the
\* provider's http status: only the message was replaced.
C24_RemapKeepsCodeAndStatus ==
    (EndedOnProviderError /\ outcome.kind = "raise"
       /\ outcome.exc.message # LastReply.exc.message)
    => /\ outcome.exc.cls = "FeishuAPIError"
       /\ outcome.exc.code = LastReply.exc.code
       /\ outcome.exc.http_status = LastReply.exc.http_status

C24_Witness ==
    /\ op = "read_multiple_ranges"
    /\ EndedOnProviderError
    /\ LastReply.exc.code = 1310218
    /\ LastReply.exc.http_status = 403
    /\ outcome.kind = "raise"
    /\ outcome.exc.message # LastReply.exc.message
    /\ outcome.exc.http_status = 403

----------------------------------------------------------------------------
(* Properties of the order of the range-list checks *)

\* the 0-based indices of the members that fail validation
InvalidIndices(xs) == { i - 1 : i \in { k \in 1..Len(xs) : ~validate_range_spec(xs[k]).ok } }

Min(S) == CHOOSE m \in S : \A n \in S : m <= n

\* C25: read_multiple_ranges, given a document id that passes, checks the
\* size of the list before any member: a list of more than 100 entries is
\* rejected with the size error even when members are invalid; a list within
\* the limit with invalid members is rejected with the error that names the
\* smallest invalid index and carries that member's validation message.
C25_SizeBeforeMembersInIndexOrder ==
    (op = "read_multiple_ranges" /\ ~Blank(args.spreadsheet_token)
       /\ IsList(args.ranges))
    => LET xs == args.ranges.xs
       IN /\ Len(xs) > BatchLimit
             => outcome = Raise(ValueError(
                    <<"ranges cannot contain more than 100 items">>))
          /\ (Len(xs) <= BatchLimit /\ InvalidIndices(xs) # {})
             => LET m == Min(InvalidIndices(xs))
                IN /\ calls = <<>>
                   /\ outcome = Raise(ValueError(
                        <<"Invalid range at index " \o ToString(m) \o ": ">>
                        \o validate_range_spec(xs[m + 1]).exc.message))

C25_Witness ==
    /\ op = "read_multiple_ranges"
    /\ args.ranges = PyList(<<PyStr(RangeNoPrefix), None>>)
    /\ ~Blank(args.spreadsheet_token)
    /\ pc = "done"
    /\ outcome.kind = "raise"
    /\ outcome.exc.message[1] = "Invalid range at index 0: "

----------------------------------------------------------------------------
(* Properties of the number of API calls *)

\* the operations that await the api_client once
SingleCallOps == {"get_worksheets", "read_range", "read_multiple_ranges", "find_cells"}

\* C26: an invocation of get_worksheets, read_range, read_multiple_ranges
\* or find_cells either fails validation with no call at all, or issues one
\* call and waits for it; once that call has succeeded or failed the
\* invocation is over with exactly one call issued and one answer received:
\* no retry, no follow-up request.
C26_ExactlyOneCall ==
    op \in SingleCallOps
    => /\ Len(calls) <= 1
       /\ pc = "awaiting" => (Len(calls) = 1 /\ replies = <<>>)
       /\ (pc = "done" /\ replies = <<>>)
          => /\ calls = <<>>
             /\ outcome.kind = "raise"
             /\ outcome.exc.cls = "ValueError"
       /\ replies # <<>>
          => /\ pc = "done"
             /\ Len(calls) = 1
             /\ Len(replies) = 1
             /\ outcome.kind \in {"return", "raise"}
             /\ ~LastReply.ok => outcome.kind = "raise"

C26_Witness ==
    /\ op = "find_cells"
    /\ pc = "done"
    /\ Len(calls) = 1
    /\ Len(replies) = 1
    /\ ~LastReply.ok
    /\ outcome.kind = "raise"

----------------------------------------------------------------------------
(* Properties of a listing that fails part-way *)

\* C27: when request k of a list_spreadsheets invocation fails, with any
\* provider or unexpected error and after any number of pages, the failure
\* is the last answer the invocation receives: it is over, it raised (so no
\* document of the earlier pages is returned) and it issued no request
\* beyond the k-th.
C27_ListingFailsAsAWhole ==
    op = "list_spreadsheets"
    => \A k \in 1..Len(replies) :
          ~replies[k].ok
          => /\ k = Len(replies)
             /\ Len(calls) = k
             /\ pc = "done"
             /\ outcome.kind = "raise"
             /\ outcome.exc.cls = "FeishuAPIError"

C27_Witness ==
    /\ op = "list_spreadsheets"
    /\ Len(replies) = 2
    /\ replies[1].ok
    /\ locals.spreadsheets # <<>>
    /\ ~replies[2].ok
    /\ Len(calls) = 2
    /\ pc = "done"
    /\ outcome.kind = "raise"

----------------------------------------------------------------------------
(* Properties of the range argument of find_cells *)

\* every argument of find_cells other than range_spec is acceptable
OtherFindArgumentsValid ==
    /\ ~Blank(args.spreadsheet_token)
    /\ ~Blank(args.sheet_id)
    /\ ~Blank(args.find_text)
    /\ \A f \in {"match_case", "match_entire_cell", "search_by_regex",
                 "include_formulas"} : IsBool(args[f])
    /\ args.search_by_regex.b => ReCompiles(Strip(args.find_text.s))

\* C28: find_cells asks of its range string only that it is not blank: with
\* the other arguments acceptable, every non-blank range string, whether or
\* not it names cells, passes validation and the single find_cells call
\* carries it with the surrounding whitespace removed and nothing else
\* changed; a blank one is rejected before any call.
C28_FindRangeOnlyNonBlank ==
    (op = "find_cells" /\ OtherFindArgumentsValid)
    => IF Blank(args.range_spec)
       THEN RejectedBeforeNetwork
       ELSE /\ Len(calls) = 1
            /\ calls[1].method = "find_cells"
            /\ calls[1].kwargs.range_spec = PyStr(Strip(args.range_spec.s))

C28_Witness ==
    /\ op = "find_cells"
    /\ OtherFindArgumentsValid
    /\ args.range_spec = PyStr(RangeWord)
    /\ pc = "awaiting"
    /\ calls[1].kwargs.range_spec = PyStr(RangeWord)

----------------------------------------------------------------------------
(* Properties of the termination of a listing *)

\* the answers that continue the listing: successful pages with a token
ContinuingReplies ==
    { k \in 1..Len(replies) : replies[k].ok /\ ListContinues(replies[k].response) }

\* C29: a list_spreadsheets invocation that passed validation has always
\* issued one request more than the continuing pages it received, however
\* many those are: it stops on nothing but an answer, and it stops at once
\* on a page without a token or on a failure.  As every request is answered
\* and the provider sends finitely many continuing pages, the invocation
\* ends.
C29_ListingTerminates ==
    /\ [](op = "list_spreadsheets" /\ calls # <<>>
          => /\ Len(calls) = Cardinality(ContinuingReplies) + 1
             /\ pc = "done" <=> Cardinality(ContinuingReplies) < Len(replies)
             /\ pc = "awaiting" <=> Cardinality(ContinuingReplies) = Len(replies))
    /\ (op = "list_spreadsheets" /\ pc = "awaiting") ~> (pc = "done")

C29_Witness ==
    /\ op = "list_spreadsheets"
    /\ Len(calls) = MaxPages
    /\ Cardinality(ContinuingReplies) = MaxPages - 1
    /\ Len(replies) = MaxPages
    /\ LastReply.ok
    /\ pc = "done"
    /\ outcome.kind = "return"

----------------------------------------------------------------------------
(* Properties of concurrent listings *)

\* the pages invocation i has received itself
OwnPages(i) == ReceivedFiles(tasks[i].replies)

\* C30: with several list_spreadsheets invocations interleaved on one
\* client, every invocation sends no token on its first request and on
\* request k+1 the page_token of its own k-th reply, with its own folder and
\* page size on every request; an invocation that returns, returns exactly
\* the sheet records of the pages it received itself, in order.
C30_ConcurrentListingsIndependent ==
    \A i \in Tasks :
       LET t == tasks[i]
       IN /\ t.calls # <<>>
             => /\ "page_token" \notin DOMAIN t.calls[1].kwargs
                /\ \A k \in 1..(Len(t.calls) - 1) :
                     /\ k <= Len(t.replies)
                     /\ t.replies[k].ok
                     /\ t.calls[k + 1].kwargs.page_token
                          = t.replies[k].response.data.page_token
                /\ \A k \in 1..Len(t.calls) :
                     /\ t.calls[k].kwargs.folder_token = t.locals.folder_token
                     /\ t.calls[k].kwargs.page_size = t.locals.page_size
          /\ (t.pc = "done" /\ t.outcome.kind = "return")
             => /\ \A k \in 1..Len(t.replies) : t.replies[k].ok
                /\ t.outcome.value = SheetRecords(OwnPages(i))

C30_Witness ==
    /\ \A i \in {1, 2} :
          /\ tasks[i].pc = "done"
          /\ tasks[i].outcome.kind = "return"
          /\ Len(tasks[i].replies) = 2
    /\ tasks[1].calls[2].kwargs.page_token # tasks[2].calls[2].kwargs.page_token
    /\ TokensOf(tasks[1].outcome.value) = <<"sheet1", "sheet1">>
    /\ TokensOf(tasks[2].outcome.value) = <<"sheet2", "sheet2">>

====
